---- MODULE Spec2Model ----
(***************************************************************************)
(* Flight-control core of the KFly firmware (control.c): the arming gate   *)
(* (ThreadControlArming, SticksInRegion, vControlForceDisarm) and the      *)
(* control cycle (vUpdateControlAction and the stages it calls).           *)
(*                                                                         *)
(* Real-valued quantities (RC levels, thresholds, references, gains) are   *)
(* fixed-point integers with Scale units per 1.0.                          *)
(***************************************************************************)
EXTENDS Integers, Sequences, FiniteSets, TLC

\* ------------------------------------------------------------------------
\* Bounds of the model
\* ------------------------------------------------------------------------
\* ticks per second of the arming thread (ARM_RATE, set in control.h)
ArmRate == 2
\* largest arm_stick_time (seconds) a stored or configured record holds
MaxStickTime == 1
\* largest arm_zero_throttle_timeout (seconds) a stored or configured record holds
MaxTimeout == 1

\* ------------------------------------------------------------------------
\* Program constants
\* ------------------------------------------------------------------------
\* fixed-point units per 1.0f
Scale == 10
\* the key vControlForceDisarm accepts, 0xdeadbeef, as its four bytes (most
\* significant first): a uint32_t is wider than the model checker's integers
DisarmKey == <<222, 173, 190, 239>>
\* arm_settings.arm_stick_time set by ControlInit
DefaultStickTime == 5
\* arm_settings.arm_zero_throttle_timeout set by ControlInit
DefaultTimeout == 30
\* width of the uint16_t timers
TimerMod == 65536

\* 0.5f, the emergency stop level of ROLE_AUX1
Half == Scale \div 2

StickDirections ==
    {"STICK_NONE", "STICK_PITCH_MIN", "STICK_PITCH_MAX", "STICK_ROLL_MIN",
     "STICK_ROLL_MAX", "STICK_YAW_MIN", "STICK_YAW_MAX"}

\* arm_settings as ControlInit writes it
DefaultArmSettings ==
    [stick_threshold |-> 0, armed_min_throttle |-> 0,
     stick_direction |-> "STICK_NONE",
     arm_stick_time |-> DefaultStickTime,
     arm_zero_throttle_timeout |-> DefaultTimeout]

\* the records a configuration command or the parameter store may put in
\* arm_settings: the default, and records with a stick direction, the
\* shortest or the longest hold time, and no or the longest throttle timeout
ArmSettingsSet ==
    {DefaultArmSettings} \cup
    [stick_threshold : {Scale \div 10},
     armed_min_throttle : {0},
     stick_direction : {"STICK_YAW_MAX", "STICK_PITCH_MIN"},
     arm_stick_time : {0, MaxStickTime},
     arm_zero_throttle_timeout : {0, MaxTimeout}]

\* the snapshots the RC input decoder may deliver
RCLevels ==
    [active : BOOLEAN,
     throttle : {0, Scale},
     pitch : {-Scale, 0, Scale},
     roll : {0},
     yaw : {-Scale, 0, Scale},
     aux1 : {0, Scale}]

\* the keys a caller passes: the sentinel, its neighbour 0xdeadbeee, its byte
\* reversal 0xefbeadde, and 0
Keys == {DisarmKey, <<222, 173, 190, 238>>, <<239, 190, 173, 222>>, <<0, 0, 0, 0>>}

VARIABLES
    controllers_armed,  \* static volatile bool controllers_armed
    arm_time,           \* locals of ThreadControlArming
    disarm_time,
    timeout_time,
    arm_settings,       \* static Control_Arm_Settings arm_settings
    rc,                 \* what RCInputGetInputLevel / bActiveRCInputConnection return
    last_op,            \* history: the operation that made the last step
    prev_armed,         \* history: controllers_armed before the last step, when
                        \* that was a tick or a forced disarm (FALSE otherwise)
    arm_run,            \* history: contiguous ticks classified STICK_ARM_REGION
    disarm_run,         \* history: contiguous ticks classified STICK_DISARM_REGION
    run_clean,          \* history: the current arm run began disarmed with all
                        \* timers zero and nothing but ticks touched the gate since
    control_reference,  \* static Control_Reference control_reference
    control_data,       \* static Control_Data control_data (the PI controllers)
    control_limits,     \* static Control_Limits control_limits
    output_mixer,       \* static Output_Mixer output_mixer
    rate_filter,        \* static float t1, t2, t3 of vRateControl
    est_pending,        \* ESTIMATION_NEW_ESTIMATION_EVENTMASK pending for ThreadControl
    ctl_pc,             \* where ThreadControl is
    rc_output,          \* the widths last handed to the RC output driver
    init_pc,            \* where the startup (ExternalFlashInit, ControlInit) is
    threads,            \* the threads ControlInit has created
    read_status,        \* what FlashSave_Read returned for each key at startup
    flash_save_control_parameters,
                        \* static Control_Parameters flash_save_control_parameters
    save_pc,            \* where ThreadControlFlashSave is
    save_pending,       \* FLASHSAVE_SAVE_EVENTMASK pending for ThreadControlFlashSave
    store,              \* the records of the parameter store, by key
    save_log,           \* history: the keys written since the last wake-up
    flash_device,       \* the external flash: its ExternalFlashConfig and the
                        \* ID the device answers with
    flash_mutex,        \* config->data->flash_mutex: its owner
    page_write,         \* the page write in progress
    rcoutput_status,    \* what RCOutputInit returns on this board
    flash_ops,          \* the flash operation each client thread is in
    spi_bus,            \* the owner of the SPI bus (spiAcquireBus)
    flash_chip,         \* the device: write enable latch, write in progress
    flash_tmp           \* config->data->flash_tmp: the client that loaded it

armvars == <<controllers_armed, arm_time, disarm_time, timeout_time,
             arm_settings, rc, last_op, prev_armed, arm_run, disarm_run,
             run_clean>>

ctlvars == <<control_reference, control_data, control_limits, output_mixer,
             rate_filter, est_pending, ctl_pc, rc_output>>

sysvars == <<init_pc, threads, read_status, flash_save_control_parameters,
             save_pc, save_pending, store, save_log, flash_device,
             flash_mutex, page_write, rcoutput_status>>

flashvars == <<flash_ops, spi_bus, flash_chip, flash_tmp>>

vars == <<armvars, ctlvars, sysvars, flashvars>>

\* the history counters saturate one tick past the longest hold the settings
\* s ask for
RunCap(s) == (s.arm_stick_time + 1) * ArmRate + 2

\* ------------------------------------------------------------------------
\* SticksInRegion
\* ------------------------------------------------------------------------
StickRole(dir) ==
    CASE dir \in {"STICK_PITCH_MIN", "STICK_PITCH_MAX"} -> "pitch"
      [] dir \in {"STICK_ROLL_MIN", "STICK_ROLL_MAX"} -> "roll"
      [] dir \in {"STICK_YAW_MIN", "STICK_YAW_MAX"} -> "yaw"
      [] OTHER -> "none"

StickIsMin(dir) == dir \in {"STICK_PITCH_MIN", "STICK_ROLL_MIN", "STICK_YAW_MIN"}

\* RCInputGetInputLevel(role)
RCInputGetInputLevel(r, role) ==
    CASE role = "pitch" -> r.pitch
      [] role = "roll" -> r.roll
      [] role = "yaw" -> r.yaw
      [] role = "throttle" -> r.throttle
      [] OTHER -> r.aux1

\* mutant: the region is taken from the stick alone, whatever the throttle
SticksInRegion_AnyThrottle(s, r) ==
    IF StickRole(s.stick_direction) = "none"
    THEN "STICK_NO_REGION"
    ELSE LET threshold == Scale - 2 * s.stick_threshold
             level == RCInputGetInputLevel(r, StickRole(s.stick_direction))
         IN  IF StickIsMin(s.stick_direction)
             THEN IF level <= -threshold THEN "STICK_ARM_REGION"
                  ELSE IF level >= threshold THEN "STICK_DISARM_REGION"
                  ELSE "STICK_NO_REGION"
             ELSE IF level >= threshold THEN "STICK_ARM_REGION"
                  ELSE IF level <= -threshold THEN "STICK_DISARM_REGION"
                  ELSE "STICK_NO_REGION"

SticksInRegion(s, r) ==
    IF RCInputGetInputLevel(r, "throttle") <= s.stick_threshold
    THEN IF StickRole(s.stick_direction) = "none"
         THEN "STICK_NO_REGION"
         ELSE LET threshold == Scale - 2 * s.stick_threshold
                  level == RCInputGetInputLevel(r, StickRole(s.stick_direction))
              IN  IF StickIsMin(s.stick_direction)
                  THEN IF level <= -threshold THEN "STICK_ARM_REGION"
                       ELSE IF level >= threshold THEN "STICK_DISARM_REGION"
                       ELSE "STICK_NO_REGION"
                  ELSE IF level >= threshold THEN "STICK_ARM_REGION"
                       ELSE IF level <= -threshold THEN "STICK_DISARM_REGION"
                       ELSE "STICK_NO_REGION"
    ELSE "STICK_NO_REGION"

\* ------------------------------------------------------------------------
\* ThreadControlArming: one pass of the loop body.  g is the gate's state
\* [armed, arm_time, disarm_time, timeout_time], s the arm settings, r the
\* RC snapshot; each operator gives the gate's state after its branch.
\* ------------------------------------------------------------------------
\* mutant: the emergency-stop channel is not looked at
TickOutcome_NoEmergencyStop(s, r) ==
    IF ~(r.active /\ s.stick_direction # "STICK_NONE") THEN "no_link_or_direction"
    ELSE SticksInRegion(s, r)

\* what the tick finds, in the order the code tests it
TickOutcome(s, r) ==
    IF ~(r.active /\ s.stick_direction # "STICK_NONE") THEN "no_link_or_direction"
    ELSE IF RCInputGetInputLevel(r, "aux1") < Half THEN "emergency_stop"
    ELSE SticksInRegion(s, r)

Inc16(t) == (t + 1) % TimerMod

\* mutant: the else branch of the link test does not clear the flag
NoLinkBranch_KeepsFlag(g) == g

\* no active RC connection, or no stick direction set
NoLinkBranch(g) == [g EXCEPT !.armed = FALSE]

\* emergency stop
EmergencyStopBranch(g) ==
    [armed |-> FALSE, arm_time |-> 0, disarm_time |-> 0, timeout_time |-> 0]

\* mutant: the arm time keeps counting once the system is armed
ArmRegionBranch_CountsOn(g, s) ==
    IF (g.arm_time \div ArmRate) > s.arm_stick_time
    THEN [g EXCEPT !.armed = TRUE, !.arm_time = Inc16(g.arm_time)]
    ELSE [g EXCEPT !.arm_time = Inc16(g.arm_time),
                   !.disarm_time = 0,
                   !.timeout_time = 0]

\* mutant: counting the arm time leaves the disarm time alone
ArmRegionBranch_KeepsDisarmTime(g, s) ==
    IF (g.arm_time \div ArmRate) > s.arm_stick_time
    THEN [g EXCEPT !.armed = TRUE]
    ELSE [g EXCEPT !.arm_time = Inc16(g.arm_time),
                   !.timeout_time = 0]

\* current_region == STICK_ARM_REGION
ArmRegionBranch(g, s) ==
    IF (g.arm_time \div ArmRate) > s.arm_stick_time
    THEN [g EXCEPT !.armed = TRUE]
    ELSE [g EXCEPT !.arm_time = Inc16(g.arm_time),
                   !.disarm_time = 0,
                   !.timeout_time = 0]

\* mutant: the disarm time is compared with >= instead of >
DisarmRegionBranch_Early(g, s) ==
    IF (g.disarm_time \div ArmRate) >= s.arm_stick_time
    THEN [g EXCEPT !.armed = FALSE]
    ELSE [g EXCEPT !.disarm_time = Inc16(g.disarm_time),
                   !.arm_time = 0,
                   !.timeout_time = 0]

\* current_region == STICK_DISARM_REGION
DisarmRegionBranch(g, s) ==
    IF (g.disarm_time \div ArmRate) > s.arm_stick_time
    THEN [g EXCEPT !.armed = FALSE]
    ELSE [g EXCEPT !.disarm_time = Inc16(g.disarm_time),
                   !.arm_time = 0,
                   !.timeout_time = 0]

\* mutant: leaving the stick regions does not reset arm_time
NoRegionBranch_KeepsArmTime(g, s, r) ==
    LET g0 == [g EXCEPT !.disarm_time = 0] IN
    IF s.arm_zero_throttle_timeout # 0
    THEN IF RCInputGetInputLevel(r, "throttle") <= s.stick_threshold
         THEN IF (g0.timeout_time \div ArmRate) > s.arm_zero_throttle_timeout
              THEN [g0 EXCEPT !.armed = FALSE]
              ELSE [g0 EXCEPT !.timeout_time = Inc16(g0.timeout_time)]
         ELSE [g0 EXCEPT !.timeout_time = 0]
    ELSE g0

\* sticks in no region: reset the stick timers, check the zero throttle timeout
NoRegionBranch(g, s, r) ==
    LET g0 == [g EXCEPT !.arm_time = 0, !.disarm_time = 0] IN
    IF s.arm_zero_throttle_timeout # 0
    THEN IF RCInputGetInputLevel(r, "throttle") <= s.stick_threshold
         THEN IF (g0.timeout_time \div ArmRate) > s.arm_zero_throttle_timeout
              THEN [g0 EXCEPT !.armed = FALSE]
              ELSE [g0 EXCEPT !.timeout_time = Inc16(g0.timeout_time)]
         ELSE [g0 EXCEPT !.timeout_time = 0]
    ELSE g0

TickResult(g, s, r) ==
    LET out == TickOutcome(s, r) IN
    CASE out = "no_link_or_direction" -> NoLinkBranch(g)
      [] out = "emergency_stop" -> EmergencyStopBranch(g)
      [] out = "STICK_ARM_REGION" -> ArmRegionBranch(g, s)
      [] out = "STICK_DISARM_REGION" -> DisarmRegionBranch(g, s)
      [] OTHER -> NoRegionBranch(g, s, r)

Gate ==
    [armed |-> controllers_armed, arm_time |-> arm_time,
     disarm_time |-> disarm_time, timeout_time |-> timeout_time]

TimersZero == arm_time = 0 /\ disarm_time = 0 /\ timeout_time = 0

Bump(n) == IF n < RunCap(arm_settings) THEN n + 1 ELSE RunCap(arm_settings)

ArmingTick ==
    LET out == TickOutcome(arm_settings, rc)
        g == TickResult(Gate, arm_settings, rc)
    IN
    /\ controllers_armed' = g.armed
    /\ arm_time' = g.arm_time
    /\ disarm_time' = g.disarm_time
    /\ timeout_time' = g.timeout_time
    /\ arm_run' = IF out = "STICK_ARM_REGION" THEN Bump(arm_run) ELSE 0
    /\ disarm_run' = IF out = "STICK_DISARM_REGION" THEN Bump(disarm_run) ELSE 0
    /\ run_clean' = IF out = "STICK_ARM_REGION"
                    THEN (IF arm_run = 0
                          THEN ~controllers_armed /\ TimersZero
                          ELSE run_clean)
                    ELSE FALSE
    /\ last_op' = "tick"
    /\ prev_armed' = controllers_armed
    /\ UNCHANGED <<arm_settings, rc>>
    /\ UNCHANGED ctlvars
    /\ UNCHANGED <<sysvars, flashvars>>

\* ------------------------------------------------------------------------
\* vControlForceDisarm
\* ------------------------------------------------------------------------
\* mutant: only the upper three bytes of the key are compared
KeyMatches_UpperBytes(key) == SubSeq(key, 1, 3) = SubSeq(DisarmKey, 1, 3)

\* key == 0xdeadbeef
KeyMatches(key) == key = DisarmKey

vControlForceDisarm(key) ==
    /\ controllers_armed' = IF KeyMatches(key) THEN FALSE ELSE controllers_armed
    /\ last_op' = IF key = DisarmKey THEN "force_disarm" ELSE "force_wrong_key"
    /\ prev_armed' = controllers_armed
    /\ run_clean' = FALSE
    /\ UNCHANGED <<arm_time, disarm_time, timeout_time, arm_settings, rc,
                   arm_run, disarm_run>>
    /\ UNCHANGED ctlvars
    /\ UNCHANGED <<sysvars, flashvars>>

ForceDisarm == \E key \in Keys : vControlForceDisarm(key)

\* ------------------------------------------------------------------------
\* The environment: the RC decoder and the configuration command
\* ------------------------------------------------------------------------
\* the RC decoder delivers a new level of one channel, or the link comes or
\* goes; L is the set of snapshots it may produce
RCInput(L) ==
    /\ \E f \in DOMAIN rc : \E v \in {r[f] : r \in L} :
          /\ v # rc[f]
          /\ rc' = [rc EXCEPT ![f] = v]
    /\ last_op' = "other"
    /\ prev_armed' = FALSE
    /\ UNCHANGED <<controllers_armed, arm_time, disarm_time, timeout_time,
                   arm_settings, arm_run, disarm_run, run_clean>>
    /\ UNCHANGED ctlvars
    /\ UNCHANGED <<sysvars, flashvars>>

RCInputUpdate == RCInput(RCLevels)

\* a configuration command writes arm_settings through ptrGetControlArmSettings
SetArmSettings ==
    /\ \E s \in ArmSettingsSet : s # arm_settings /\ arm_settings' = s
    /\ last_op' = "other"
    /\ prev_armed' = FALSE
    /\ run_clean' = FALSE
    /\ UNCHANGED <<controllers_armed, arm_time, disarm_time, timeout_time,
                   rc, arm_run, disarm_run>>
    /\ UNCHANGED ctlvars
    /\ UNCHANGED <<sysvars, flashvars>>

\* ------------------------------------------------------------------------
\* Fixed-point arithmetic standing for the float operations
\* ------------------------------------------------------------------------
\* division truncating toward zero
TDiv(a, b) == IF a >= 0 THEN a \div b ELSE -((-a) \div b)

\* a * b of two fixed-point values
Mul(a, b) == TDiv(a * b, Scale)

\* x * DEG2RAD (pi / 180 = 0.017453..., here 349 / 20000)
Deg2Rad(x) == TDiv(x * 349, 20000)

\* bound(max, min, x) of the math helpers
bound(max, min, x) == IF x > max THEN max ELSE IF x < min THEN min ELSE x

\* ------------------------------------------------------------------------
\* Control data
\* ------------------------------------------------------------------------
Channels == 0..7

Axes == 0..2

ZeroPI ==
    [Kp |-> 0, Ki |-> 0, output_min |-> 0, output_max |-> 0,
     integral |-> 0, last_output |-> 0]

\* control_reference, control_data, control_limits and output_mixer as
\* ControlInit zeroes them
ZeroReference ==
    [mode |-> "FLIGHTMODE_DISARMED",
     attitude_reference |-> [x |-> 0, y |-> 0],
     rate_reference |-> [x |-> 0, y |-> 0, z |-> 0],
     actuator_desired |-> [throttle |-> 0, pitch |-> 0, roll |-> 0, yaw |-> 0],
     pwm_out |-> [i \in Channels |-> 0]]

ZeroControlData ==
    [attitude_controller |-> [i \in Axes |-> ZeroPI],
     rate_controller |-> [i \in Axes |-> ZeroPI]]

ZeroLimits ==
    [max_angle |-> [pitch |-> 0, roll |-> 0],
     max_rate |-> [pitch |-> 0, roll |-> 0, yaw |-> 0],
     max_rate_attitude |-> [pitch |-> 0, roll |-> 0]]

ZeroMixer == [i \in Channels |-> <<0, 0, 0, 0>>]

\* the records the parameter store holds when it holds any: gains Kp = Ki = 1
\* and output_min = -1 for every controller, 30 degrees and 100 degrees/s of
\* limits with 0.3 and 0.4 rad/s out of the attitude stage, five mixed
\* channels (two of them with weights above 1) and three unused ones
StoredParameters == [i \in 0..5 |-> <<Scale, Scale, -Scale>>]

StoredLimits ==
    [max_angle |-> [pitch |-> 30 * Scale, roll |-> 30 * Scale],
     max_rate |-> [pitch |-> 100 * Scale, roll |-> 100 * Scale,
                   yaw |-> 100 * Scale],
     max_rate_attitude |-> [pitch |-> 3, roll |-> 4]]

StoredMixer ==
    [i \in Channels |->
        CASE i = 0 -> <<Scale, 0, 0, 0>>
          [] i = 1 -> <<Scale, Scale, 0, 0>>
          [] i = 2 -> <<Scale, 0, -Scale, Scale>>
          [] i = 3 -> <<3 * Scale, 0, 0, 0>>
          [] i = 4 -> <<0, 4 * Scale, 0, 0>>
          [] OTHER -> <<0, 0, 0, 0>>]

\* SetControlParameters: the first three floats of every PI_Data are taken
\* from the record, controller by controller
SetControlParameters(cd, param) ==
    LET Put(pi, f) == [pi EXCEPT !.Kp = f[1], !.Ki = f[2], !.output_min = f[3]]
    IN  [attitude_controller |->
            [i \in Axes |-> Put(cd.attitude_controller[i], param[i])],
         rate_controller |->
            [i \in Axes |-> Put(cd.rate_controller[i], param[i + 3])]]

\* ESTIMATION_DT, the sampling time handed to the controllers
EstimationDt == Scale \div 2

\* const float alpha = 0.2f of vRateControl
Alpha == Scale \div 5

\* largest magnitude of a PI integral the model follows
MaxIntegral == 2

\* ------------------------------------------------------------------------
\* fPIUpdate: raw = Kp * error + Ki * integral; the output is raw clamped to
\* [output_min, output_max]; the integral takes error * dt only when raw is
\* not clamped; dt <= 0 changes nothing and gives the previous output
\* ------------------------------------------------------------------------
fPIUpdate(pi, error, dt) ==
    IF dt <= 0
    THEN [pi |-> pi, u |-> pi.last_output]
    ELSE LET raw == Mul(pi.Kp, error) + Mul(pi.Ki, pi.integral) IN
         IF raw > pi.output_max
         THEN [pi |-> [pi EXCEPT !.last_output = pi.output_max],
               u |-> pi.output_max]
         ELSE IF raw < pi.output_min
         THEN [pi |-> [pi EXCEPT !.last_output = pi.output_min],
               u |-> pi.output_min]
         ELSE [pi |-> [pi EXCEPT !.integral = pi.integral + Mul(error, dt),
                                 !.last_output = raw],
               u |-> raw]

\* ------------------------------------------------------------------------
\* vRCInputsToControlAction
\* ------------------------------------------------------------------------
\* const Flight_Mode selector
Selector == "FLIGHTMODE_ATTITUDE"

\* mutant: the RC level is handed on whatever armed_min_throttle is
ArmedThrottle_NoFloor(s, throttle) == throttle

\* the throttle handed to the mixer: the RC level, or armed_min_throttle when
\* the level is below it
ArmedThrottle(s, throttle) ==
    IF throttle < s.armed_min_throttle
    THEN s.armed_min_throttle
    ELSE throttle

vRCInputsToControlAction(ref, armed, s, lim, r) ==
    IF armed
    THEN LET throttle == RCInputGetInputLevel(r, "throttle")
             moded ==
               IF Selector = "FLIGHTMODE_RATE"
               THEN [ref EXCEPT
                       !.mode = "FLIGHTMODE_RATE",
                       !.rate_reference.x =
                           Mul(Deg2Rad(lim.max_rate.pitch),
                               RCInputGetInputLevel(r, "pitch")),
                       !.rate_reference.y =
                           Mul(Deg2Rad(lim.max_rate.roll),
                               RCInputGetInputLevel(r, "roll"))]
               ELSE [ref EXCEPT
                       !.mode = "FLIGHTMODE_ATTITUDE",
                       !.attitude_reference.x =
                           Mul(Deg2Rad(lim.max_angle.pitch),
                               RCInputGetInputLevel(r, "pitch")),
                       !.attitude_reference.y =
                           Mul(Deg2Rad(lim.max_angle.roll),
                               RCInputGetInputLevel(r, "roll"))]
         IN  [moded EXCEPT
                !.rate_reference.z =
                    Mul(Deg2Rad(lim.max_rate.yaw),
                        RCInputGetInputLevel(r, "yaw")),
                !.actuator_desired.throttle = ArmedThrottle(s, throttle)]
    ELSE [ref EXCEPT !.mode = "FLIGHTMODE_DISARMED"]

\* ------------------------------------------------------------------------
\* The stages.  c is [ref, data, filt]: control_reference, control_data and
\* the filter states of vRateControl; e is the estimate, with e.phi the
\* atan2f term and e.theta the asinf term of the attitude quaternion
\* ------------------------------------------------------------------------
\* mutant: the PI outputs go to rate_reference as they are
vAttitudeControl_Unbounded(c, lim, e, dt) ==
    LET err_x == c.ref.attitude_reference.x + e.phi
        err_y == c.ref.attitude_reference.x - e.theta
        r0 == fPIUpdate(c.data.attitude_controller[0], err_y, dt)
        r1 == fPIUpdate(c.data.attitude_controller[1], err_x, dt)
    IN  [c EXCEPT
           !.data.attitude_controller[0] = r0.pi,
           !.data.attitude_controller[1] = r1.pi,
           !.ref.rate_reference.x = r0.u,
           !.ref.rate_reference.y = r1.u]

\* mutant: control_yaw is taken as true and the stage writes the yaw rate
\* reference from err.z = 0
vAttitudeControl_ControlsYaw(c, lim, e, dt) ==
    LET err_x == c.ref.attitude_reference.x + e.phi
        err_y == c.ref.attitude_reference.x - e.theta
        r0 == fPIUpdate(c.data.attitude_controller[0], err_y, dt)
        r1 == fPIUpdate(c.data.attitude_controller[1], err_x, dt)
    IN  [c EXCEPT
           !.data.attitude_controller[0] = r0.pi,
           !.data.attitude_controller[1] = r1.pi,
           !.ref.rate_reference.x =
               bound(lim.max_rate_attitude.pitch,
                     -lim.max_rate_attitude.pitch, r0.u),
           !.ref.rate_reference.y =
               bound(lim.max_rate_attitude.roll,
                     -lim.max_rate_attitude.roll, r1.u),
           !.ref.rate_reference.z = 0]

vAttitudeControl(c, lim, e, dt) ==
    LET err_x == c.ref.attitude_reference.x + e.phi
        err_y == c.ref.attitude_reference.x - e.theta
        r0 == fPIUpdate(c.data.attitude_controller[0], err_y, dt)
        r1 == fPIUpdate(c.data.attitude_controller[1], err_x, dt)
    IN  [c EXCEPT
           !.data.attitude_controller[0] = r0.pi,
           !.data.attitude_controller[1] = r1.pi,
           !.ref.rate_reference.x =
               bound(lim.max_rate_attitude.pitch,
                     -lim.max_rate_attitude.pitch, r0.u),
           !.ref.rate_reference.y =
               bound(lim.max_rate_attitude.roll,
                     -lim.max_rate_attitude.roll, r1.u)]

vRateControl(c, e, dt) ==
    LET t1 == Mul(Alpha, e.w.x) + Mul(Scale - Alpha, c.filt.t1)
        t2 == Mul(Alpha, e.w.y) + Mul(Scale - Alpha, c.filt.t2)
        t3 == Mul(Alpha, e.w.z) + Mul(Scale - Alpha, c.filt.t3)
        r0 == fPIUpdate(c.data.rate_controller[0],
                        c.ref.rate_reference.x - t2, dt)
        r1 == fPIUpdate(c.data.rate_controller[1],
                        c.ref.rate_reference.y - t1, dt)
        r2 == fPIUpdate(c.data.rate_controller[2],
                        c.ref.rate_reference.z - t3, dt)
    IN  [c EXCEPT
           !.filt = [t1 |-> t1, t2 |-> t2, t3 |-> t3],
           !.data.rate_controller[0] = r0.pi,
           !.data.rate_controller[1] = r1.pi,
           !.data.rate_controller[2] = r2.pi,
           !.ref.actuator_desired.pitch = bound(Scale, -Scale, r0.u),
           !.ref.actuator_desired.roll = bound(Scale, -Scale, r1.u),
           !.ref.actuator_desired.yaw = bound(Scale, -Scale, r2.u)]

\* mutant: the sum goes to pwm_out as it is
vUpdateOutputs_Unbounded(c, mix) ==
    LET a == c.ref.actuator_desired
        sum(i) == Mul(a.throttle, mix[i][1]) + Mul(a.pitch, mix[i][2])
                    + Mul(a.roll, mix[i][3]) + Mul(a.yaw, mix[i][4])
    IN  [c EXCEPT !.ref.pwm_out = [i \in Channels |-> sum(i)]]

\* mutant: the roll demand takes the yaw weight and the yaw demand the roll
\* weight
vUpdateOutputs_RollYawSwapped(c, mix) ==
    LET a == c.ref.actuator_desired
        sum(i) == Mul(a.throttle, mix[i][1]) + Mul(a.pitch, mix[i][2])
                    + Mul(a.roll, mix[i][4]) + Mul(a.yaw, mix[i][3])
    IN  [c EXCEPT !.ref.pwm_out = [i \in Channels |-> bound(Scale, -Scale, sum(i))]]

vUpdateOutputs(c, mix) ==
    LET a == c.ref.actuator_desired
        sum(i) == Mul(a.throttle, mix[i][1]) + Mul(a.pitch, mix[i][2])
                    + Mul(a.roll, mix[i][3]) + Mul(a.yaw, mix[i][4])
    IN  [c EXCEPT !.ref.pwm_out = [i \in Channels |-> bound(Scale, -Scale, sum(i))]]

\* the part of vDisableAllOutputs before vSendPWMCommands
vDisableAllOutputs(c) == [c EXCEPT !.ref.pwm_out = [i \in Channels |-> 0]]

\* the cases of the switch in vUpdateControlAction a mode falls through
RunsAttitude(mode) ==
    mode \in {"FLIGHTMODE_POSITION", "FLIGHTMODE_VELOCITY", "FLIGHTMODE_ATTITUDE"}

\* mutant: the disarmed and default cases sit above the rate case and fall
\* through it
RunsRate_Disarmed(mode) ==
    mode \notin {"FLIGHTMODE_DIRECT_CONTROL", "FLIGTMODE_DIRECT_PWM"}

RunsRate(mode) == RunsAttitude(mode) \/ mode = "FLIGHTMODE_RATE"

RunsOutputs(mode) == RunsRate(mode) \/ mode = "FLIGHTMODE_DIRECT_CONTROL"

RunsSendOnly(mode) == RunsOutputs(mode) \/ mode = "FLIGTMODE_DIRECT_PWM"

\* mutant: the rate case sits above the attitude case, so the rate stage
\* runs on the rate reference of the cycle before
Cascade_RateFirst(c, lim, mix, e, dt) ==
    LET mode == c.ref.mode
        c1 == IF RunsRate(mode) THEN vRateControl(c, e, dt) ELSE c
        c2 == IF RunsAttitude(mode) THEN vAttitudeControl(c1, lim, e, dt) ELSE c1
        c3 == IF RunsOutputs(mode) THEN vUpdateOutputs(c2, mix) ELSE c2
    IN  IF RunsSendOnly(mode) THEN c3 ELSE vDisableAllOutputs(c3)

\* the switch of vUpdateControlAction up to vSendPWMCommands
Cascade(c, lim, mix, e, dt) ==
    LET mode == c.ref.mode
        c1 == IF RunsAttitude(mode) THEN vAttitudeControl(c, lim, e, dt) ELSE c
        c2 == IF RunsRate(mode) THEN vRateControl(c1, e, dt) ELSE c1
        c3 == IF RunsOutputs(mode) THEN vUpdateOutputs(c2, mix) ELSE c2
    IN  IF RunsSendOnly(mode) THEN c3 ELSE vDisableAllOutputs(c3)

IntegralsWithin(cd, m) ==
    \A i \in Axes :
        /\ cd.attitude_controller[i].integral \in (-m)..m
        /\ cd.rate_controller[i].integral \in (-m)..m

\* ------------------------------------------------------------------------
\* ThreadControl: chEvtWaitOne, then vUpdateControlAction in the three parts
\* between which the arming thread or a forced disarm may run
\* ------------------------------------------------------------------------
\* the estimator broadcasts the event of a new estimate
NewEstimate ==
    /\ est_pending' = TRUE
    /\ last_op' = "signal"
    /\ prev_armed' = FALSE
    /\ UNCHANGED <<controllers_armed, arm_time, disarm_time, timeout_time,
                   arm_settings, rc, arm_run, disarm_run, run_clean>>
    /\ UNCHANGED <<control_reference, control_data, control_limits,
                   output_mixer, rate_filter, ctl_pc, rc_output>>
    /\ UNCHANGED <<sysvars, flashvars>>

\* chEvtWaitOne returns; vRCInputsToControlAction
CtlBegin ==
    /\ ctl_pc = "wait"
    /\ est_pending
    /\ est_pending' = FALSE
    /\ control_reference' =
           vRCInputsToControlAction(control_reference, controllers_armed,
                                    arm_settings, control_limits, rc)
    /\ ctl_pc' = "cascade"
    /\ last_op' = "other"
    /\ prev_armed' = FALSE
    /\ UNCHANGED <<controllers_armed, arm_time, disarm_time, timeout_time,
                   arm_settings, rc, arm_run, disarm_run, run_clean>>
    /\ UNCHANGED <<control_data, control_limits, output_mixer, rate_filter,
                   rc_output>>
    /\ UNCHANGED <<sysvars, flashvars>>

\* the switch on control_reference.mode, reading the estimate e the estimator
\* holds at that time
CtlCascadeWith(e) ==
    /\ ctl_pc = "cascade"
    /\ \E c \in {Cascade([ref |-> control_reference, data |-> control_data,
                          filt |-> rate_filter],
                         control_limits, output_mixer, e, EstimationDt)} :
          /\ IntegralsWithin(c.data, MaxIntegral)
          /\ control_reference' = c.ref
          /\ control_data' = c.data
          /\ rate_filter' = c.filt
    /\ ctl_pc' = "send"
    /\ last_op' = "other"
    /\ prev_armed' = FALSE
    /\ UNCHANGED <<controllers_armed, arm_time, disarm_time, timeout_time,
                   arm_settings, rc, arm_run, disarm_run, run_clean>>
    /\ UNCHANGED <<control_limits, output_mixer, est_pending, rc_output>>
    /\ UNCHANGED <<sysvars, flashvars>>

\* vSendPWMCommands; the thread waits for the next estimate
CtlSend ==
    /\ ctl_pc = "send"
    /\ rc_output' = control_reference.pwm_out
    /\ ctl_pc' = "wait"
    /\ last_op' = "other"
    /\ prev_armed' = FALSE
    /\ UNCHANGED <<controllers_armed, arm_time, disarm_time, timeout_time,
                   arm_settings, rc, arm_run, disarm_run, run_clean>>
    /\ UNCHANGED <<control_reference, control_data, control_limits,
                   output_mixer, rate_filter, est_pending>>
    /\ UNCHANGED <<sysvars, flashvars>>

\* ------------------------------------------------------------------------
\* ControlInit
\* ------------------------------------------------------------------------
\* the estimates the estimator publishes
EstStates ==
    {[phi |-> 0, theta |-> 0, w |-> [x |-> 0, y |-> 0, z |-> 0]],
     [phi |-> -2, theta |-> 1,
      w |-> [x |-> Scale \div 2, y |-> 0, z |-> -(Scale \div 2)]]}

\* ------------------------------------------------------------------------
\* The parameter store, the threads and the external flash
\* ------------------------------------------------------------------------
\* the keys of the four parameter blocks
ParameterKeys == {"CONA", "CONP", "CONL", "CONM"}

\* the threads ControlInit creates
AllThreads ==
    {"ThreadControlArming", "ThreadControl", "ThreadControlFlashSave"}

\* Control_Parameters: the first three floats of each of the six PI_Data
ZeroParameters == [i \in 0..5 |-> <<0, 0, 0>>]

\* GetControlParameters: the first three floats of every PI_Data, controller
\* by controller
GetControlParameters(cd) ==
    LET Take(pi) == <<pi.Kp, pi.Ki, pi.output_min>>
    IN  [i \in 0..5 |-> IF i < 3
                        THEN Take(cd.attitude_controller[i])
                        ELSE Take(cd.rate_controller[i - 3])]

\* the arm settings record the parameter store holds when it holds any
StoredArmSettings ==
    [stick_threshold |-> Scale \div 10, armed_min_throttle |-> Scale \div 5,
     stick_direction |-> "STICK_YAW_MAX", arm_stick_time |-> 0,
     arm_zero_throttle_timeout |-> 0]

\* a store with no record, and one with a record under each key (a record is
\* held as a one-element sequence, no record as the empty one)
EmptyStore == [k \in ParameterKeys |-> <<>>]

StoredRecords ==
    [k \in ParameterKeys |->
        CASE k = "CONA" -> <<StoredArmSettings>>
          [] k = "CONP" -> <<StoredParameters>>
          [] k = "CONL" -> <<StoredLimits>>
          [] k = "CONM" -> <<StoredMixer>>]

\* no page write in progress
NoWrite == [pc |-> "idle", fn |-> "none", count |-> 0, sent |-> 0]

\* the threads that call the flash driver
NumFlashClients == 2

ClientNames == <<"client1", "client2", "client3", "client4">>

FlashClients == {ClientNames[n] : n \in 1..NumFlashClients}

\* a client thread outside the driver
IdleOp == [st |-> "idle", op |-> "none", i |-> 0, count |-> 0, wip |-> FALSE,
           polls |-> 0]

\* the driver and the device at rest
FlashIdle ==
    /\ flash_ops = [c \in FlashClients |-> IdleOp]
    /\ spi_bus = "none"
    /\ flash_chip = [wel |-> FALSE, wip |-> FALSE, writer |-> "none"]
    /\ flash_tmp = "none"

\* the external flash: num_pages and jedec_id of its ExternalFlashConfig (a
\* 32 KiB, a 64 KiB and an 8 MiB device of 256-byte pages) and the ID the device
\* answers FLASH_CMD_RDID with
FlashDevices ==
    [num_pages : {128, 256, 32768},
     jedec_id : {"ID_CONFIGURED"},
     id : {"ID_CONFIGURED", "ID_OTHER"}]

\* the system once ExternalFlashInit and ControlInit have returned, with the
\* startup reads all successful (stored) or all failed
SysRunning(stored) ==
    /\ init_pc = "running"
    /\ threads = AllThreads
    /\ read_status = [k \in ParameterKeys |->
                         IF stored THEN "FLASHSAVE_OK" ELSE "FLASHSAVE_ERROR"]
    /\ flash_save_control_parameters =
           IF stored THEN StoredParameters ELSE ZeroParameters
    /\ save_pc = "wait"
    /\ save_pending = FALSE
    /\ store = IF stored THEN StoredRecords ELSE EmptyStore
    /\ save_log = <<>>
    /\ flash_device = [num_pages |-> 32768, jedec_id |-> "ID_CONFIGURED",
                       id |-> "ID_CONFIGURED"]
    /\ flash_mutex = "none"
    /\ page_write = NoWrite
    /\ rcoutput_status = "MSG_OK"
    /\ FlashIdle

\* the control structures after ControlInit: zeroed, then overwritten by
\* vReadControlParametersFromFlash with the records the store holds
ControlInitData(stored) ==
    /\ SysRunning(stored)
    /\ control_reference = ZeroReference
    /\ control_data = IF stored
                      THEN SetControlParameters(ZeroControlData, StoredParameters)
                      ELSE ZeroControlData
    /\ control_limits = IF stored THEN StoredLimits ELSE ZeroLimits
    /\ output_mixer = IF stored THEN StoredMixer ELSE ZeroMixer
    /\ rate_filter = [t1 |-> 0, t2 |-> 0, t3 |-> 0]
    /\ est_pending = FALSE
    /\ ctl_pc = "wait"
    /\ rc_output = [i \in Channels |-> 0]

Init ==
    /\ controllers_armed = FALSE
    /\ arm_time = 0
    /\ disarm_time = 0
    /\ timeout_time = 0
    /\ arm_settings \in ArmSettingsSet
    /\ rc \in RCLevels
    /\ last_op = "other"
    /\ prev_armed = FALSE
    /\ arm_run = 0
    /\ disarm_run = 0
    /\ run_clean = FALSE
    /\ ControlInitData(FALSE)

Next ==
    \/ ArmingTick
    \/ ForceDisarm
    \/ RCInputUpdate
    \/ SetArmSettings

Spec == Init /\ [][Next]_vars

\* the gate with the arm settings held fixed after ControlInit
NextFixed ==
    \/ ArmingTick
    \/ ForceDisarm
    \/ RCInputUpdate

SpecFixed == Init /\ [][NextFixed]_vars

\* ------------------------------------------------------------------------
\* The control thread together with the gate
\* ------------------------------------------------------------------------
ArmSettingsControl ==
    {[stick_threshold |-> Scale \div 10, armed_min_throttle |-> Scale \div 5,
      stick_direction |-> "STICK_YAW_MAX", arm_stick_time |-> 0,
      arm_zero_throttle_timeout |-> 0]}

RCLevelsControl ==
    [active : {TRUE},
     throttle : {0, Scale \div 2},
     pitch : {0, -Scale},
     roll : {0},
     yaw : {0, Scale},
     aux1 : {Scale}]

InitControl ==
    /\ controllers_armed = FALSE
    /\ arm_time = 0
    /\ disarm_time = 0
    /\ timeout_time = 0
    /\ arm_settings \in ArmSettingsControl
    /\ rc \in RCLevelsControl
    /\ last_op = "other"
    /\ prev_armed = FALSE
    /\ arm_run = 0
    /\ disarm_run = 0
    /\ run_clean = FALSE
    /\ \E stored \in BOOLEAN : ControlInitData(stored)

RCInputControl == RCInput(RCLevelsControl)

CtlCascade == \E e \in EstStates : CtlCascadeWith(e)

NextControl ==
    \/ ArmingTick
    \/ ForceDisarm
    \/ RCInputControl
    \/ NewEstimate
    \/ CtlBegin
    \/ CtlCascade
    \/ CtlSend

SpecControl == InitControl /\ [][NextControl]_vars

\* ------------------------------------------------------------------------
\* The control thread with a caller of ptrGetControlReferences that selects a
\* direct mode by writing the mode field of the control reference
\* ------------------------------------------------------------------------
DirectModes == {"FLIGHTMODE_DIRECT_CONTROL", "FLIGTMODE_DIRECT_PWM"}

SetReferenceMode ==
    /\ \E m \in DirectModes :
          /\ control_reference.mode # m
          /\ control_reference' = [control_reference EXCEPT !.mode = m]
    /\ last_op' = "other"
    /\ prev_armed' = FALSE
    /\ UNCHANGED <<controllers_armed, arm_time, disarm_time, timeout_time,
                   arm_settings, rc, arm_run, disarm_run, run_clean>>
    /\ UNCHANGED <<control_data, control_limits, output_mixer, rate_filter,
                   est_pending, ctl_pc, rc_output>>
    /\ UNCHANGED <<sysvars, flashvars>>

\* the arm settings of the control thread's runs, and the same with
\* armed_min_throttle configured to 1.5
ArmSettingsHost ==
    ArmSettingsControl \cup
    {[stick_threshold |-> Scale \div 10,
      armed_min_throttle |-> (3 * Scale) \div 2,
      stick_direction |-> "STICK_YAW_MAX", arm_stick_time |-> 0,
      arm_zero_throttle_timeout |-> 0]}

\* ControlInit with the parameter store holding its records
InitModes ==
    /\ controllers_armed = FALSE
    /\ arm_time = 0
    /\ disarm_time = 0
    /\ timeout_time = 0
    /\ arm_settings \in ArmSettingsHost
    /\ rc \in RCLevelsControl
    /\ last_op = "other"
    /\ prev_armed = FALSE
    /\ arm_run = 0
    /\ disarm_run = 0
    /\ run_clean = FALSE
    /\ ControlInitData(TRUE)

NextModes ==
    \/ ArmingTick
    \/ RCInputControl
    \/ NewEstimate
    \/ CtlBegin
    \/ CtlCascade
    \/ CtlSend
    \/ SetReferenceMode

SpecModes == InitModes /\ [][NextModes]_vars

\* ------------------------------------------------------------------------
\* ThreadControlFlashSave and the configuration commands that write the
\* controller gains and ask for a save
\* ------------------------------------------------------------------------
\* the gains a configuration command may send: those of the store, and the
\* same with Kp = 2
TunedParameters == [i \in 0..5 |-> <<2 * Scale, Scale, -Scale>>]

ParameterSets == {StoredParameters, TunedParameters}

\* a configuration command calls SetControlParameters
HostSetControlParameters ==
    /\ \E param \in ParameterSets :
          /\ param # GetControlParameters(control_data)
          /\ control_data' = SetControlParameters(control_data, param)
    /\ last_op' = "other"
    /\ prev_armed' = FALSE
    /\ UNCHANGED <<controllers_armed, arm_time, disarm_time, timeout_time,
                   arm_settings, rc, arm_run, disarm_run, run_clean>>
    /\ UNCHANGED <<control_reference, control_limits, output_mixer,
                   rate_filter, est_pending, ctl_pc, rc_output>>
    /\ UNCHANGED <<sysvars, flashvars>>

\* what every step of the save thread leaves alone
SaveFrame ==
    /\ last_op' = "other"
    /\ prev_armed' = FALSE
    /\ UNCHANGED <<controllers_armed, arm_time, disarm_time, timeout_time,
                   arm_settings, rc, arm_run, disarm_run, run_clean>>
    /\ UNCHANGED ctlvars
    /\ UNCHANGED <<init_pc, threads, read_status, flash_device, flash_mutex,
                   page_write, rcoutput_status>>
    /\ UNCHANGED flashvars

\* a configuration command broadcasts the save event
SaveSignal ==
    /\ save_pending' = TRUE
    /\ UNCHANGED <<flash_save_control_parameters, save_pc, store, save_log>>
    /\ SaveFrame

\* chEvtWaitOne(FLASHSAVE_SAVE_EVENTMASK) returns
SaveWake ==
    /\ save_pc = "wait"
    /\ save_pending
    /\ save_pending' = FALSE
    /\ save_pc' = "CONA"
    /\ save_log' = <<>>
    /\ UNCHANGED <<flash_save_control_parameters, store>>
    /\ SaveFrame

\* FlashSave_Write: the record under the key is replaced
FlashSave_Write(key, data) ==
    /\ store' = [store EXCEPT ![key] = <<data>>]
    /\ save_log' = Append(save_log, key)

\* mutant: the limits are not saved
AfterWrite_SkipsLimits(key) ==
    CASE key = "CONA" -> "snapshot"
      [] key = "CONP" -> "CONM"
      [] key = "CONL" -> "CONM"
      [] key = "CONM" -> "wait"

\* where the thread goes after the write of a key
AfterWrite(key) ==
    CASE key = "CONA" -> "snapshot"
      [] key = "CONP" -> "CONL"
      [] key = "CONL" -> "CONM"
      [] key = "CONM" -> "wait"

\* the block saved under a key
SaveBlock(key) ==
    CASE key = "CONA" -> arm_settings
      [] key = "CONP" -> flash_save_control_parameters
      [] key = "CONL" -> control_limits
      [] key = "CONM" -> output_mixer

\* one FlashSave_Write call of the thread
SaveWrite ==
    /\ save_pc \in ParameterKeys
    /\ FlashSave_Write(save_pc, SaveBlock(save_pc))
    /\ save_pc' = AfterWrite(save_pc)
    /\ UNCHANGED <<flash_save_control_parameters, save_pending>>
    /\ SaveFrame

\* GetControlParameters(&flash_save_control_parameters)
SaveSnapshot ==
    /\ save_pc = "snapshot"
    /\ flash_save_control_parameters' = GetControlParameters(control_data)
    /\ save_pc' = "CONP"
    /\ UNCHANGED <<save_pending, store, save_log>>
    /\ SaveFrame

\* ControlInit has run with the store holding its records; the sticks rest in
\* the arming position
InitParams ==
    /\ controllers_armed = FALSE
    /\ arm_time = 0
    /\ disarm_time = 0
    /\ timeout_time = 0
    /\ arm_settings = StoredArmSettings
    /\ rc = [active |-> TRUE, throttle |-> 0, pitch |-> 0, roll |-> 0,
             yaw |-> Scale, aux1 |-> Scale]
    /\ last_op = "other"
    /\ prev_armed = FALSE
    /\ arm_run = 0
    /\ disarm_run = 0
    /\ run_clean = FALSE
    /\ ControlInitData(TRUE)

NextParams ==
    \/ ArmingTick
    \/ NewEstimate
    \/ CtlBegin
    \/ CtlCascade
    \/ CtlSend
    \/ HostSetControlParameters
    \/ SaveSignal
    \/ SaveWake
    \/ SaveWrite
    \/ SaveSnapshot

SpecParams == InitParams /\ [][NextParams]_vars

\* ------------------------------------------------------------------------
\* The startup: ExternalFlashInit, then ControlInit step by step
\* ------------------------------------------------------------------------
\* arm_settings before ControlInit has written it
ZeroArmSettings ==
    [stick_threshold |-> 0, armed_min_throttle |-> 0,
     stick_direction |-> "STICK_NONE", arm_stick_time |-> 0,
     arm_zero_throttle_timeout |-> 0]

Halted == {"halted_flash", "halted_rcoutput"}

\* what the startup steps leave alone
StartupFrame ==
    /\ last_op' = "other"
    /\ prev_armed' = FALSE
    /\ UNCHANGED <<arm_time, disarm_time, timeout_time, rc, arm_run,
                   disarm_run, run_clean>>
    /\ UNCHANGED <<rate_filter, est_pending, ctl_pc, rc_output>>
    /\ UNCHANGED <<save_pc, save_pending, store, save_log, flash_device,
                   page_write, rcoutput_status>>
    /\ UNCHANGED flashvars

\* ExternalFlash_ReadID: the three ID bytes of the device
ExternalFlash_ReadID == flash_device.id

\* ExternalFlashInit: the mutex is initialized, the ID is read and compared
ExternalFlashInit ==
    /\ init_pc = "reset"
    /\ flash_mutex' = "none"
    /\ init_pc' = IF ExternalFlash_ReadID # flash_device.jedec_id
                  THEN "halted_flash"
                  ELSE "control_init"
    /\ UNCHANGED <<controllers_armed, arm_settings, control_reference,
                   control_data, control_limits, output_mixer, threads,
                   read_status, flash_save_control_parameters>>
    /\ StartupFrame

\* mutant: the result of RCOutputInit is not looked at
AfterOutputInit_Continues(status) == "read_CONA"

\* if (RCOutputInit(&rcoutputcfg) != MSG_OK) osalSysHalt(...)
AfterOutputInit(status) ==
    IF status # "MSG_OK" THEN "halted_rcoutput" ELSE "read_CONA"

\* ControlInit up to vReadControlParametersFromFlash
ControlInitBegin ==
    /\ init_pc = "control_init"
    /\ controllers_armed' = FALSE
    /\ arm_settings' = DefaultArmSettings
    /\ init_pc' = AfterOutputInit(rcoutput_status)
    /\ IF init_pc' \in Halted
       THEN UNCHANGED <<control_reference, control_data, control_limits,
                        output_mixer>>
       ELSE /\ control_reference' = ZeroReference
            /\ control_data' = ZeroControlData
            /\ control_limits' = ZeroLimits
            /\ output_mixer' = ZeroMixer
    /\ UNCHANGED <<threads, read_status, flash_save_control_parameters,
                   flash_mutex>>
    /\ StartupFrame

\* the statuses FlashSave_Read may return for a key: failure always, success
\* when the store holds a record
ReadStatuses(key) ==
    {"FLASHSAVE_ERROR"} \cup
    (IF store[key] # <<>> THEN {"FLASHSAVE_OK"} ELSE {})

\* FlashSave_Read: what the destination holds afterwards
FlashSave_Read(key, dest, status) ==
    IF status = "FLASHSAVE_OK" THEN store[key][1] ELSE dest

\* mutant: the test of the status is inverted
ApplyParameters_Inverted(status, cd, staged) ==
    IF status # "FLASHSAVE_OK" THEN SetControlParameters(cd, staged) ELSE cd

\* if (status == FLASHSAVE_OK) SetControlParameters(...)
ApplyParameters(status, cd, staged) ==
    IF status = "FLASHSAVE_OK" THEN SetControlParameters(cd, staged) ELSE cd

\* vReadControlParametersFromFlash, one FlashSave_Read at a time
ReadCONA ==
    /\ init_pc = "read_CONA"
    /\ \E status \in ReadStatuses("CONA") :
          /\ arm_settings' = FlashSave_Read("CONA", arm_settings, status)
          /\ read_status' = [read_status EXCEPT !["CONA"] = status]
    /\ init_pc' = "read_CONP"
    /\ UNCHANGED <<controllers_armed, control_reference, control_data,
                   control_limits, output_mixer, threads,
                   flash_save_control_parameters, flash_mutex>>
    /\ StartupFrame

ReadCONP ==
    /\ init_pc = "read_CONP"
    /\ \E status \in ReadStatuses("CONP") :
          /\ flash_save_control_parameters' =
                 FlashSave_Read("CONP", flash_save_control_parameters, status)
          /\ control_data' =
                 ApplyParameters(status, control_data,
                                 flash_save_control_parameters')
          /\ read_status' = [read_status EXCEPT !["CONP"] = status]
    /\ init_pc' = "read_CONL"
    /\ UNCHANGED <<controllers_armed, arm_settings, control_reference,
                   control_limits, output_mixer, threads, flash_mutex>>
    /\ StartupFrame

ReadCONL ==
    /\ init_pc = "read_CONL"
    /\ \E status \in ReadStatuses("CONL") :
          /\ control_limits' = FlashSave_Read("CONL", control_limits, status)
          /\ read_status' = [read_status EXCEPT !["CONL"] = status]
    /\ init_pc' = "read_CONM"
    /\ UNCHANGED <<controllers_armed, arm_settings, control_reference,
                   control_data, output_mixer, threads,
                   flash_save_control_parameters, flash_mutex>>
    /\ StartupFrame

ReadCONM ==
    /\ init_pc = "read_CONM"
    /\ \E status \in ReadStatuses("CONM") :
          /\ output_mixer' = FlashSave_Read("CONM", output_mixer, status)
          /\ read_status' = [read_status EXCEPT !["CONM"] = status]
    /\ init_pc' = "create_threads"
    /\ UNCHANGED <<controllers_armed, arm_settings, control_reference,
                   control_data, control_limits, threads,
                   flash_save_control_parameters, flash_mutex>>
    /\ StartupFrame

\* the three chThdCreateStatic calls
CreateThreads ==
    /\ init_pc = "create_threads"
    /\ threads' = AllThreads
    /\ init_pc' = "running"
    /\ UNCHANGED <<controllers_armed, arm_settings, control_reference,
                   control_data, control_limits, output_mixer, read_status,
                   flash_save_control_parameters, flash_mutex>>
    /\ StartupFrame

Started(t) == t \in threads

\* the system at reset: statics zeroed, no thread, a store that holds all
\* four records or lacks the limits
InitStartup ==
    /\ controllers_armed = FALSE
    /\ arm_time = 0
    /\ disarm_time = 0
    /\ timeout_time = 0
    /\ arm_settings = ZeroArmSettings
    /\ rc \in RCLevelsControl
    /\ last_op = "other"
    /\ prev_armed = FALSE
    /\ arm_run = 0
    /\ disarm_run = 0
    /\ run_clean = FALSE
    /\ control_reference = ZeroReference
    /\ control_data = ZeroControlData
    /\ control_limits = ZeroLimits
    /\ output_mixer = ZeroMixer
    /\ rate_filter = [t1 |-> 0, t2 |-> 0, t3 |-> 0]
    /\ est_pending = FALSE
    /\ ctl_pc = "wait"
    /\ rc_output = [i \in Channels |-> 0]
    /\ init_pc = "reset"
    /\ threads = {}
    /\ read_status = [k \in ParameterKeys |-> "none"]
    /\ flash_save_control_parameters = ZeroParameters
    /\ save_pc = "wait"
    /\ save_pending = FALSE
    /\ store \in {StoredRecords, [StoredRecords EXCEPT !["CONL"] = <<>>]}
    /\ save_log = <<>>
    /\ flash_device \in FlashDevices
    /\ flash_mutex = "none"
    /\ page_write = NoWrite
    /\ rcoutput_status \in {"MSG_OK", "MSG_RESET"}
    /\ FlashIdle

NextStartup ==
    \/ ExternalFlashInit
    \/ ControlInitBegin
    \/ ReadCONA
    \/ ReadCONP
    \/ ReadCONL
    \/ ReadCONM
    \/ CreateThreads
    \/ (Started("ThreadControlArming") /\ ArmingTick)
    \/ (Started("ThreadControl") /\ NewEstimate)
    \/ (Started("ThreadControl") /\ CtlBegin)
    \/ (Started("ThreadControl") /\ CtlCascade)
    \/ (Started("ThreadControl") /\ CtlSend)

SpecStartup == InitStartup /\ [][NextStartup]_vars

\* ------------------------------------------------------------------------
\* The page writes of the external flash driver
\* ------------------------------------------------------------------------
\* the page capacity: "Number of bytes to write (max 256 bytes)"
PageSize == 256

PageWriteFns == {"ExternalFlash_WritePage", "ExternalFlash_WritePagePolling"}

\* the byte counts (uint16_t) a caller asks for
WriteCounts == {0, 1, 127, 128, 255, 256, 257, 300}

\* if (count >= config->num_pages) chSysHalt("Page write size too big")
SizeCheck(count) ==
    IF count >= flash_device.num_pages THEN "halted" ELSE "claim"

\* what the steps of a page write leave alone
PageWriteFrame ==
    /\ UNCHANGED <<armvars, ctlvars>>
    /\ UNCHANGED <<init_pc, threads, read_status,
                   flash_save_control_parameters, save_pc, save_pending,
                   store, save_log, flash_device, rcoutput_status>>
    /\ UNCHANGED flashvars

\* a caller enters one of the two page write functions: the error check
PageWriteCall ==
    /\ page_write.pc = "idle"
    /\ \E fn \in PageWriteFns, count \in WriteCounts :
          page_write' = [pc |-> SizeCheck(count), fn |-> fn, count |-> count,
                         sent |-> 0]
    /\ UNCHANGED flash_mutex
    /\ PageWriteFrame

\* ExternalFlash_Claim
PageWriteClaim ==
    /\ page_write.pc = "claim"
    /\ flash_mutex = "none"
    /\ flash_mutex' = page_write.fn
    /\ page_write' = [page_write EXCEPT !.pc = "write_enable"]
    /\ PageWriteFrame

\* ExternalFlash_WriteEnable
PageWriteEnable ==
    /\ page_write.pc = "write_enable"
    /\ page_write' = [page_write EXCEPT !.pc = "program"]
    /\ UNCHANGED flash_mutex
    /\ PageWriteFrame

\* the page program command, the address and count data bytes
PageWriteProgram ==
    /\ page_write.pc = "program"
    /\ page_write' = [page_write EXCEPT !.pc = "wait_end",
                                        !.sent = page_write.count]
    /\ UNCHANGED flash_mutex
    /\ PageWriteFrame

\* ExternalFlash_WaitForWriteEnd
PageWriteWaitEnd ==
    /\ page_write.pc = "wait_end"
    /\ page_write' = [page_write EXCEPT !.pc = "release"]
    /\ UNCHANGED flash_mutex
    /\ PageWriteFrame

\* ExternalFlash_Release, and the return to the caller
PageWriteRelease ==
    /\ page_write.pc = "release"
    /\ flash_mutex' = "none"
    /\ page_write' = NoWrite
    /\ PageWriteFrame

\* the running system over each flash device that answers the configured ID
InitFlash ==
    /\ controllers_armed = FALSE
    /\ arm_time = 0
    /\ disarm_time = 0
    /\ timeout_time = 0
    /\ arm_settings = StoredArmSettings
    /\ rc = [active |-> TRUE, throttle |-> 0, pitch |-> 0, roll |-> 0,
             yaw |-> 0, aux1 |-> Scale]
    /\ last_op = "other"
    /\ prev_armed = FALSE
    /\ arm_run = 0
    /\ disarm_run = 0
    /\ run_clean = FALSE
    /\ control_reference = ZeroReference
    /\ control_data = SetControlParameters(ZeroControlData, StoredParameters)
    /\ control_limits = StoredLimits
    /\ output_mixer = StoredMixer
    /\ rate_filter = [t1 |-> 0, t2 |-> 0, t3 |-> 0]
    /\ est_pending = FALSE
    /\ ctl_pc = "wait"
    /\ rc_output = [i \in Channels |-> 0]
    /\ init_pc = "running"
    /\ threads = AllThreads
    /\ read_status = [k \in ParameterKeys |-> "FLASHSAVE_OK"]
    /\ flash_save_control_parameters = StoredParameters
    /\ save_pc = "wait"
    /\ save_pending = FALSE
    /\ store = StoredRecords
    /\ save_log = <<>>
    /\ flash_device \in {d \in FlashDevices : d.id = d.jedec_id}
    /\ flash_mutex = "none"
    /\ page_write = NoWrite
    /\ rcoutput_status = "MSG_OK"
    /\ FlashIdle

NextFlash ==
    \/ PageWriteCall
    \/ PageWriteClaim
    \/ PageWriteEnable
    \/ PageWriteProgram
    \/ PageWriteWaitEnd
    \/ PageWriteRelease

SpecFlash == InitFlash /\ [][NextFlash]_vars

\* ------------------------------------------------------------------------
\* The flash driver with several client threads.  An operation is the
\* sequence of the steps its function makes: Claim and Release of the flash,
\* AcquireBus and ReleaseBus of the SPI bus, the bytes it exchanges with the
\* device (WriteEnable, Command, ReadStatus), the load of flash_tmp, the
\* sleep and the loop test of ExternalFlash_WaitForWriteEnd.
\* ------------------------------------------------------------------------
FlashEraseOps ==
    {"ExternalFlash_EraseBulk", "ExternalFlash_EraseSector",
     "ExternalFlash_ErasePage"}

FlashWriteOps == FlashEraseOps \cup PageWriteFns

FlashReadOps ==
    {"ExternalFlash_ReadID", "ExternalFlash_ReadBufferPolling",
     "ExternalFlash_ReadBuffer"}

FlashOpNames == FlashWriteOps \cup FlashReadOps

\* mutant: the write enable returns with the SPI bus still acquired
ExternalFlash_WriteEnable_KeepsBus == <<"AcquireBus", "WriteEnable">>

\* ExternalFlash_WriteEnable
ExternalFlash_WriteEnable == <<"AcquireBus", "WriteEnable", "ReleaseBus">>

\* mutant: the status is read once and not looked at
ExternalFlash_WaitForWriteEnd_Once ==
    <<"Sleep", "AcquireBus", "ReadStatus", "ReleaseBus">>

\* ExternalFlash_WaitForWriteEnd with a delay: do { sleep; read the status }
\* while (wip & FLASH_WIP_FLAG)
ExternalFlash_WaitForWriteEnd ==
    <<"Sleep", "AcquireBus", "ReadStatus", "ReleaseBus", "WhileWip">>

\* ExternalFlash_EraseBulk, ExternalFlash_EraseSector, ExternalFlash_ErasePage
EraseSteps ==
    <<"Claim">> \o ExternalFlash_WriteEnable
        \o <<"AcquireBus", "Command", "ReleaseBus">>
        \o ExternalFlash_WaitForWriteEnd \o <<"Release">>

\* ExternalFlash_WritePagePolling, after its error check
WritePagePollingSteps ==
    <<"Claim">> \o ExternalFlash_WriteEnable
        \o <<"AcquireBus", "Command", "ReleaseBus">>
        \o ExternalFlash_WaitForWriteEnd \o <<"Release">>

\* ExternalFlash_WritePage, after its error check
WritePageSteps ==
    <<"Claim">> \o ExternalFlash_WriteEnable
        \o <<"AcquireBus", "LoadTmp", "Command", "ReleaseBus">>
        \o ExternalFlash_WaitForWriteEnd \o <<"Release">>

\* ExternalFlash_ReadID and ExternalFlash_ReadBufferPolling
ReadPollingSteps ==
    <<"Claim", "AcquireBus", "Command", "ReleaseBus", "Release">>

\* mutant: the DMA read neither claims nor releases the flash
ReadBufferSteps_Unclaimed ==
    <<"AcquireBus", "LoadTmp", "Command", "ReleaseBus">>

\* ExternalFlash_ReadBuffer
ReadBufferSteps ==
    <<"Claim", "AcquireBus", "LoadTmp", "Command", "ReleaseBus", "Release">>

Program(op) ==
    CASE op \in FlashEraseOps -> EraseSteps
      [] op = "ExternalFlash_WritePagePolling" -> WritePagePollingSteps
      [] op = "ExternalFlash_WritePage" -> WritePageSteps
      [] op = "ExternalFlash_ReadBuffer" -> ReadBufferSteps
      [] OTHER -> ReadPollingSteps

\* the byte counts the clients ask a page write for
CallCounts(op) == IF op \in PageWriteFns THEN {1, 256} ELSE {0}

Running(c) == flash_ops[c].st = "running"

\* the step client c makes next
Current(c) ==
    IF Running(c) THEN Program(flash_ops[c].op)[flash_ops[c].i] ELSE "none"

\* chSysHalt stops every thread
NoHalt == \A c \in FlashClients : flash_ops[c].st # "halted"

\* client c has made its step and is now as rec says: on to the next step,
\* or back in the caller after the last one
Advance(c, rec) ==
    [flash_ops EXCEPT
       ![c] = IF rec.i >= Len(Program(rec.op))
              THEN IdleOp
              ELSE [rec EXCEPT !.i = rec.i + 1]]

\* what the steps of the driver leave alone
FlashOpsFrame ==
    /\ UNCHANGED <<armvars, ctlvars>>
    /\ UNCHANGED <<init_pc, threads, read_status,
                   flash_save_control_parameters, save_pc, save_pending,
                   store, save_log, flash_device, page_write,
                   rcoutput_status>>

\* a thread calls one of the operations; the page writes start with their
\* error check
FlashCall ==
    /\ NoHalt
    /\ \E c \in FlashClients : \E op \in FlashOpNames :
       \E count \in CallCounts(op) :
          /\ flash_ops[c].st = "idle"
          /\ flash_ops' =
                 [flash_ops EXCEPT
                    ![c] = [st |-> IF op \in PageWriteFns
                                      /\ SizeCheck(count) = "halted"
                                   THEN "halted"
                                   ELSE "running",
                            op |-> op, i |-> 1, count |-> count,
                            wip |-> FALSE, polls |-> 0]]
    /\ UNCHANGED <<flash_mutex, spi_bus, flash_chip, flash_tmp>>
    /\ FlashOpsFrame

\* ExternalFlash_Claim: lock flash_mutex
FlashClaim ==
    /\ NoHalt
    /\ \E c \in FlashClients :
          /\ Current(c) = "Claim"
          /\ flash_mutex = "none"
          /\ flash_mutex' = c
          /\ flash_ops' = Advance(c, flash_ops[c])
    /\ UNCHANGED <<spi_bus, flash_chip, flash_tmp>>
    /\ FlashOpsFrame

\* ExternalFlash_Release: unlock flash_mutex
FlashRelease ==
    /\ NoHalt
    /\ \E c \in FlashClients :
          /\ Current(c) = "Release"
          /\ flash_mutex' = "none"
          /\ flash_ops' = Advance(c, flash_ops[c])
    /\ UNCHANGED <<spi_bus, flash_chip, flash_tmp>>
    /\ FlashOpsFrame

\* spiAcquireBus
FlashAcquireBus ==
    /\ NoHalt
    /\ \E c \in FlashClients :
          /\ Current(c) = "AcquireBus"
          /\ spi_bus = "none"
          /\ spi_bus' = c
          /\ flash_ops' = Advance(c, flash_ops[c])
    /\ UNCHANGED <<flash_mutex, flash_chip, flash_tmp>>
    /\ FlashOpsFrame

\* spiReleaseBus
FlashReleaseBus ==
    /\ NoHalt
    /\ \E c \in FlashClients :
          /\ Current(c) = "ReleaseBus"
          /\ spi_bus' = "none"
          /\ flash_ops' = Advance(c, flash_ops[c])
    /\ UNCHANGED <<flash_mutex, flash_chip, flash_tmp>>
    /\ FlashOpsFrame

\* the device takes FLASH_CMD_WREN: the write enable latch is set, unless a
\* write is in progress
ChipWriteEnable(chip) ==
    IF chip.wip THEN chip ELSE [chip EXCEPT !.wel = TRUE]

\* the device takes the command of operation op from client c: an erase or a
\* page program starts when the latch is set and no write is in progress,
\* a read changes nothing
ChipCommand(chip, op, c) ==
    IF op \in FlashWriteOps /\ chip.wel /\ ~chip.wip
    THEN [wel |-> FALSE, wip |-> TRUE, writer |-> c]
    ELSE chip

\* FLASH_CMD_WREN
FlashWriteEnable ==
    /\ NoHalt
    /\ \E c \in FlashClients :
          /\ Current(c) = "WriteEnable"
          /\ flash_chip' = ChipWriteEnable(flash_chip)
          /\ flash_ops' = Advance(c, flash_ops[c])
    /\ UNCHANGED <<flash_mutex, spi_bus, flash_tmp>>
    /\ FlashOpsFrame

\* the erase, program or read command with its address and data bytes
FlashCommand ==
    /\ NoHalt
    /\ \E c \in FlashClients :
          /\ Current(c) = "Command"
          /\ flash_chip' = ChipCommand(flash_chip, flash_ops[c].op, c)
          /\ flash_ops' = Advance(c, flash_ops[c])
    /\ UNCHANGED <<flash_mutex, spi_bus, flash_tmp>>
    /\ FlashOpsFrame

\* flash_tmp[0..3] = command and address
FlashLoadTmp ==
    /\ NoHalt
    /\ \E c \in FlashClients :
          /\ Current(c) = "LoadTmp"
          /\ flash_tmp' = c
          /\ flash_ops' = Advance(c, flash_ops[c])
    /\ UNCHANGED <<flash_mutex, spi_bus, flash_chip>>
    /\ FlashOpsFrame

\* chThdSleep(OSAL_MS2ST(delay_ms))
FlashSleep ==
    /\ NoHalt
    /\ \E c \in FlashClients :
          /\ Current(c) = "Sleep"
          /\ flash_ops' = Advance(c, flash_ops[c])
    /\ UNCHANGED <<flash_mutex, spi_bus, flash_chip, flash_tmp>>
    /\ FlashOpsFrame

\* FLASH_CMD_RDSR: wip is the status the device answers
FlashReadStatus ==
    /\ NoHalt
    /\ \E c \in FlashClients :
          /\ Current(c) = "ReadStatus"
          /\ flash_ops' =
                 Advance(c, [flash_ops[c] EXCEPT
                               !.wip = flash_chip.wip,
                               !.polls = IF @ < 2 THEN @ + 1 ELSE @])
    /\ UNCHANGED <<flash_mutex, spi_bus, flash_chip, flash_tmp>>
    /\ FlashOpsFrame

\* while (wip & FLASH_WIP_FLAG): back to the sleep, or out of the loop
FlashWhileWip ==
    /\ NoHalt
    /\ \E c \in FlashClients :
          /\ Current(c) = "WhileWip"
          /\ flash_ops' =
                 IF flash_ops[c].wip
                 THEN [flash_ops EXCEPT
                         ![c].i = @ - (Len(ExternalFlash_WaitForWriteEnd) - 1)]
                 ELSE Advance(c, flash_ops[c])
    /\ UNCHANGED <<flash_mutex, spi_bus, flash_chip, flash_tmp>>
    /\ FlashOpsFrame

\* the device ends its erase or program cycle
ChipDone ==
    /\ flash_chip.wip
    /\ flash_chip' = [flash_chip EXCEPT !.wip = FALSE, !.writer = "none"]
    /\ UNCHANGED <<flash_ops, flash_mutex, spi_bus, flash_tmp>>
    /\ FlashOpsFrame

NextFlashOps ==
    \/ FlashCall
    \/ FlashClaim
    \/ FlashRelease
    \/ FlashAcquireBus
    \/ FlashReleaseBus
    \/ FlashWriteEnable
    \/ FlashCommand
    \/ FlashLoadTmp
    \/ FlashSleep
    \/ FlashReadStatus
    \/ FlashWhileWip
    \/ ChipDone

SpecFlashOps == InitFlash /\ [][NextFlashOps]_vars

\* ------------------------------------------------------------------------
\* Properties of the arming gate
\* ------------------------------------------------------------------------
AfterTick == last_op = "tick"

\* the outcome of the tick that has just run (a tick leaves arm_settings and
\* rc as it read them)
Outcome == TickOutcome(arm_settings, rc)

HoldTicks == arm_settings.arm_stick_time * ArmRate

\* C1: a Disarmed->Armed transition happens at a tick only if the sticks were
\* classified ArmRegion on at least arm_stick_time * ARM_RATE contiguous
\* ticks ending at that tick.
C1_ArmOnlyAfterFullHold ==
    [][(~controllers_armed /\ controllers_armed') => arm_run' >= HoldTicks]_vars

\* C2: starting Disarmed with all timers zero, holding the sticks in
\* ArmRegion for arm_stick_time * ARM_RATE contiguous ticks makes the system
\* Armed at the end of those ticks (stated for hold times of a second or
\* more, where the hold has at least one tick).
C2_FullHoldArms ==
    (AfterTick /\ run_clean /\ arm_settings.arm_stick_time >= 1
               /\ arm_run >= HoldTicks)
        => controllers_armed

\* C5: after every tick on which the RC link is absent, or stick_direction is
\* STICK_NONE, or the emergency-stop channel reads below 0.5, the armed flag
\* is false.
C5_DisqualifiedTickDisarms ==
    (AfterTick /\ (~rc.active \/ arm_settings.stick_direction = "STICK_NONE"
                   \/ rc.aux1 < Half))
        => ~controllers_armed

C5_Witness ==
    /\ AfterTick
    /\ prev_armed
    /\ ~controllers_armed
    /\ ~rc.active
    /\ SticksInRegion(arm_settings, rc) = "STICK_ARM_REGION"

\* C6: after every tick on which the RC link is absent or stick_direction is
\* STICK_NONE, arm_time, disarm_time and timeout_time are all 0.
C6_NoLinkTickZeroesTimers ==
    (AfterTick /\ (~rc.active \/ arm_settings.stick_direction = "STICK_NONE"))
        => TimersZero

\* C7: with RC link active and a direction configured, after any tick whose
\* outcome is not ArmRegion (NoRegion, DisarmRegion or emergency stop)
\* arm_time is 0.
C7_InterruptedHoldRestarts ==
    (AfterTick /\ rc.active /\ arm_settings.stick_direction # "STICK_NONE"
              /\ Outcome # "STICK_ARM_REGION")
        => arm_time = 0

C7_Witness ==
    /\ AfterTick
    /\ rc.active
    /\ arm_settings.stick_direction # "STICK_NONE"
    /\ Outcome = "STICK_DISARM_REGION"
    /\ (disarm_time \div ArmRate) > arm_settings.arm_stick_time
    /\ ~controllers_armed
    /\ prev_armed
    /\ arm_time = 0

\* C8: a tick that finds the system Armed with the sticks in DisarmRegion
\* (link active, no emergency stop) disarms exactly when
\* disarm_time / ARM_RATE exceeds arm_stick_time, and leaves arm_time and
\* timeout_time at 0; a hold of no more than (arm_stick_time + 1) * ARM_RATE
\* ticks leaves the system Armed.
C8_DisarmHold ==
    [][(last_op' = "tick" /\ controllers_armed
          /\ Outcome = "STICK_DISARM_REGION")
        => /\ controllers_armed' =
                  ~((disarm_time \div ArmRate) > arm_settings.arm_stick_time)
           /\ arm_time' = 0
           /\ timeout_time' = 0
           /\ (disarm_run' <= (arm_settings.arm_stick_time + 1) * ArmRate
                  => controllers_armed')]_vars

C8_Witness ==
    /\ AfterTick
    /\ Outcome = "STICK_DISARM_REGION"
    /\ prev_armed
    /\ ~controllers_armed
    /\ disarm_run = (arm_settings.arm_stick_time + 1) * ArmRate + 1
    /\ arm_settings.arm_stick_time > 0

\* C9: after a NoRegion tick with arm_zero_throttle_timeout = 0 or throttle
\* above stick_threshold, timeout_time is 0; with a non-zero timeout and
\* throttle <= stick_threshold the tick increments timeout_time or, once
\* timeout_time / ARM_RATE exceeds the timeout, disarms.
C9_NoRegionTimeout ==
    [][(last_op' = "tick" /\ Outcome = "STICK_NO_REGION")
        => IF arm_settings.arm_zero_throttle_timeout # 0
              /\ rc.throttle <= arm_settings.stick_threshold
           THEN IF (timeout_time \div ArmRate) >
                      arm_settings.arm_zero_throttle_timeout
                THEN ~controllers_armed'
                ELSE timeout_time' = timeout_time + 1
           ELSE timeout_time' = 0]_vars

\* ------------------------------------------------------------------------
\* Properties of the control cycle
\* ------------------------------------------------------------------------
AllZero(f) == \A k \in DOMAIN f : f[k] = 0

\* a control cycle has ended (the thread waits again) and it was one that
\* found the system disarmed: only vRCInputsToControlAction writes the mode
DisarmedCycleEnded ==
    /\ ctl_pc = "wait"
    /\ control_reference.mode = "FLIGHTMODE_DISARMED"

\* C3: every control cycle that finds the armed flag false ends with
\* actuator_desired.throttle, .pitch, .roll, .yaw and all eight pwm_out[i]
\* equal to 0.
C3_DisarmedCycleZeroesDemand ==
    DisarmedCycleEnded
        => /\ AllZero(control_reference.actuator_desired)
           /\ AllZero(control_reference.pwm_out)

\* the variables of the program, without the history variables
progvars ==
    <<controllers_armed, arm_time, disarm_time, timeout_time, arm_settings,
      rc, control_reference, control_data, control_limits, output_mixer,
      rate_filter, est_pending, ctl_pc, rc_output>>

\* C4: vControlForceDisarm with the key 0xdeadbeef leaves the armed flag
\* false, whatever the timers hold and wherever the control cycle is, and
\* changes nothing else; with any other key it changes nothing at all.
C4_ForceDisarm ==
    [][/\ last_op' = "force_disarm"
           => /\ ~controllers_armed'
              /\ UNCHANGED <<arm_time, disarm_time, timeout_time, arm_settings,
                             control_reference, control_data, control_limits,
                             output_mixer, rate_filter, ctl_pc, rc_output>>
       /\ last_op' = "force_wrong_key" => UNCHANGED progvars]_vars

C4_Witness ==
    /\ last_op = "force_disarm"
    /\ prev_armed
    /\ ~controllers_armed
    /\ arm_time > 0
    /\ ctl_pc = "send"
    /\ control_reference.mode = "FLIGHTMODE_ATTITUDE"

\* C10: the steps of a control cycle that found the system Disarmed leave the
\* PI controllers, the rate filter states, rate_reference and
\* attitude_reference unchanged, and the cycle hands 0 to the output driver
\* on every channel.
C10_DisarmedCycleRunsNoStage ==
    [][(ctl_pc' # ctl_pc /\ control_reference'.mode = "FLIGHTMODE_DISARMED")
        => /\ control_data' = control_data
           /\ rate_filter' = rate_filter
           /\ control_reference'.rate_reference = control_reference.rate_reference
           /\ control_reference'.attitude_reference =
                  control_reference.attitude_reference
           /\ (ctl_pc' = "wait" => AllZero(rc_output'))]_vars

C10_Witness ==
    /\ DisarmedCycleEnded
    /\ AllZero(rc_output)
    /\ rate_filter.t1 # 0
    /\ control_reference.rate_reference.z # 0
    /\ control_reference.rate_reference.y # 0
    /\ control_data.attitude_controller[1].integral # 0
    /\ control_reference.actuator_desired.throttle # 0

\* the three steps of a control cycle
BeginStep == ctl_pc = "wait" /\ ctl_pc' = "cascade"

CascadeStep == ctl_pc = "cascade" /\ ctl_pc' = "send"

SendStep == ctl_pc = "send" /\ ctl_pc' = "wait"

\* the control structures as the stages take them
Now == [ref |-> control_reference, data |-> control_data, filt |-> rate_filter]

\* C11: in an armed cycle entered at Attitude mode the stages run in the
\* order attitude control, rate control, output update, PWM send, each once
\* and in that same cycle: the rate reference is the attitude stage's output
\* for the references the cycle started with, the actuator demand is the rate
\* stage's output for that rate reference, pwm_out is the mix of that
\* actuator demand, and the send hands that pwm_out to the output driver.
C11_AttitudeCycleRunsAllStages ==
    [][/\ (CascadeStep /\ control_reference.mode = "FLIGHTMODE_ATTITUDE")
           => \E e \in EstStates :
                 LET a == vAttitudeControl(Now, control_limits, e, EstimationDt)
                     r == vRateControl(a, e, EstimationDt)
                     o == vUpdateOutputs(r, output_mixer)
                 IN  /\ control_reference'.rate_reference = a.ref.rate_reference
                     /\ control_data'.attitude_controller =
                            a.data.attitude_controller
                     /\ control_reference'.actuator_desired =
                            r.ref.actuator_desired
                     /\ control_data'.rate_controller = r.data.rate_controller
                     /\ rate_filter' = r.filt
                     /\ control_reference'.pwm_out = o.ref.pwm_out
       /\ (SendStep /\ control_reference.mode = "FLIGHTMODE_ATTITUDE")
           => rc_output' = control_reference.pwm_out]_vars

\* a first armed cycle about to send: nothing but zero was sent so far, and
\* the pitch reference has reached the rate reference, the actuator demand
\* and the outputs
C11_Witness ==
    /\ ctl_pc = "send"
    /\ control_reference.mode = "FLIGHTMODE_ATTITUDE"
    /\ AllZero(rc_output)
    /\ control_reference.attitude_reference.x # 0
    /\ control_reference.rate_reference.x # 0
    /\ control_reference.rate_reference.y # 0
    /\ control_reference.actuator_desired.pitch # 0
    /\ control_reference.actuator_desired.roll # 0
    /\ control_reference.pwm_out[1] # 0
    /\ control_reference.pwm_out[2] # 0
\* C12: a control cycle that starts armed with the mode of the control
\* reference at DirectControl runs only output update and PWM send, with
\* actuator_desired as given; one that starts with DirectPWM runs only PWM
\* send, with pwm_out as given: the cycle keeps the mode it finds and the
\* cascade is entered at the stage of that mode.
C12_DirectModesEnterBelow ==
    [][/\ (BeginStep /\ controllers_armed
              /\ control_reference.mode \in DirectModes)
           => control_reference'.mode = control_reference.mode
       /\ (CascadeStep /\ control_reference.mode = "FLIGHTMODE_DIRECT_CONTROL")
           => /\ control_data' = control_data
              /\ rate_filter' = rate_filter
              /\ control_reference'.actuator_desired =
                     control_reference.actuator_desired
              /\ control_reference'.pwm_out =
                     vUpdateOutputs(Now, output_mixer).ref.pwm_out
       /\ (CascadeStep /\ control_reference.mode = "FLIGTMODE_DIRECT_PWM")
           => /\ control_data' = control_data
              /\ rate_filter' = rate_filter
              /\ control_reference' = control_reference]_vars
\* C13: in every state after ControlInit every pwm_out[i], i in 0..7, lies
\* in [-1, 1], whatever the mixer weights and the actuator demand are.
C13_PwmOutBounded ==
    \A i \in Channels :
        /\ control_reference.pwm_out[i] >= -Scale
        /\ control_reference.pwm_out[i] <= Scale

\* the mix of channel 3 is above 1 and that of channel 4 below -1
C13_Witness ==
    /\ ctl_pc = "send"
    /\ Mul(control_reference.actuator_desired.throttle, output_mixer[3][1])
           > Scale
    /\ control_reference.pwm_out[3] = Scale
    /\ Mul(control_reference.actuator_desired.pitch, output_mixer[4][2])
           < -Scale
    /\ control_reference.pwm_out[4] = -Scale
\* C14: in every state every component of actuator_desired (throttle, pitch,
\* roll, yaw) lies in [-1, 1], for RC levels in range and every value
\* armed_min_throttle is configured to.
C14_ActuatorDesiredBounded ==
    \A k \in DOMAIN control_reference.actuator_desired :
        /\ control_reference.actuator_desired[k] >= -Scale
        /\ control_reference.actuator_desired[k] <= Scale
Abs(x) == IF x < 0 THEN -x ELSE x

\* the cascade of an Attitude-mode cycle has run and the cycle is about to
\* send (between the two only vRCInputsToControlAction writes the mode)
AttitudeStageDone ==
    /\ ctl_pc = "send"
    /\ control_reference.mode = "FLIGHTMODE_ATTITUDE"

\* C15: after the attitude stage has run in a cycle, |rate_reference.x| is at
\* most max_rate_attitude.pitch and |rate_reference.y| at most
\* max_rate_attitude.roll, whatever the PI controllers put out.
C15_RateReferenceBounded ==
    AttitudeStageDone
        => /\ Abs(control_reference.rate_reference.x)
                  <= control_limits.max_rate_attitude.pitch
           /\ Abs(control_reference.rate_reference.y)
                  <= control_limits.max_rate_attitude.roll

\* both PI outputs were beyond their limits and both were cut
C15_Witness ==
    /\ AttitudeStageDone
    /\ control_data.attitude_controller[0].last_output
           < -control_limits.max_rate_attitude.pitch
    /\ control_reference.rate_reference.x
           = -control_limits.max_rate_attitude.pitch
    /\ control_data.attitude_controller[1].last_output
           < -control_limits.max_rate_attitude.roll
    /\ control_reference.rate_reference.y
           = -control_limits.max_rate_attitude.roll
    /\ control_limits.max_rate_attitude.pitch
           # control_limits.max_rate_attitude.roll
\* C16: in Attitude mode the error of each axis is that axis's own reference
\* minus that axis's measured angle: the pitch rate reference is the bounded
\* PI output for attitude_reference.x (pitch) and the asinf angle, the roll
\* rate reference the bounded PI output for attitude_reference.y (roll) and
\* the atan2f angle (taken with either sign), so that the roll stick moves
\* the roll rate reference and the pitch stick does not.
C16_AttitudeErrorPerAxis ==
    [][(CascadeStep /\ control_reference.mode = "FLIGHTMODE_ATTITUDE")
        => \E e \in EstStates : \E sgn \in {1, -1} :
              LET err_pitch == control_reference.attitude_reference.x - e.theta
                  err_roll == control_reference.attitude_reference.y
                                 - sgn * e.phi
                  u_pitch == fPIUpdate(control_data.attitude_controller[0],
                                       err_pitch, EstimationDt).u
                  u_roll == fPIUpdate(control_data.attitude_controller[1],
                                      err_roll, EstimationDt).u
              IN  /\ control_reference'.rate_reference.x =
                         bound(control_limits.max_rate_attitude.pitch,
                               -control_limits.max_rate_attitude.pitch, u_pitch)
                  /\ control_reference'.rate_reference.y =
                         bound(control_limits.max_rate_attitude.roll,
                               -control_limits.max_rate_attitude.roll, u_roll)
       ]_vars
\* throttle*w[i][0] + pitch*w[i][1] + roll*w[i][2] + yaw*w[i][3] of channel i
MixSum(i) ==
    TDiv(control_reference.actuator_desired.throttle * output_mixer[i][1], Scale)
    + TDiv(control_reference.actuator_desired.pitch * output_mixer[i][2], Scale)
    + TDiv(control_reference.actuator_desired.roll * output_mixer[i][3], Scale)
    + TDiv(control_reference.actuator_desired.yaw * output_mixer[i][4], Scale)

Clamp(lo, hi, x) == IF x < lo THEN lo ELSE IF x > hi THEN hi ELSE x

\* C17: after the output-update stage pwm_out[i] is
\* clamp(-1, 1, throttle*w[i][0] + pitch*w[i][1] + roll*w[i][2] + yaw*w[i][3])
\* on each of the 8 channels; a channel with an all-zero weight row gets 0,
\* and with w[0] = [1,0,0,0] and throttle 0.5 channel 0 gets 0.5.
C17_MixerFormula ==
    AttitudeStageDone
        => /\ \A i \in Channels :
                 control_reference.pwm_out[i] = Clamp(-Scale, Scale, MixSum(i))
           /\ \A i \in Channels :
                 output_mixer[i] = <<0, 0, 0, 0>>
                     => control_reference.pwm_out[i] = 0
           /\ (/\ output_mixer[0] = <<Scale, 0, 0, 0>>
               /\ control_reference.actuator_desired.throttle = Scale \div 2)
                 => control_reference.pwm_out[0] = Scale \div 2

\* throttle 0.5 on channel 0, an unused channel, and a channel that mixes
\* throttle, roll and yaw without being clamped
C17_Witness ==
    /\ AttitudeStageDone
    /\ output_mixer[0] = <<Scale, 0, 0, 0>>
    /\ control_reference.actuator_desired.throttle = Scale \div 2
    /\ control_reference.pwm_out[0] = Scale \div 2
    /\ output_mixer[7] = <<0, 0, 0, 0>>
    /\ control_reference.actuator_desired.roll # 0
    /\ control_reference.actuator_desired.pitch # 0
    /\ control_reference.pwm_out[2] =
           control_reference.actuator_desired.throttle
           - control_reference.actuator_desired.roll
           + control_reference.actuator_desired.yaw
    /\ control_reference.pwm_out[2] < Scale
Max(a, b) == IF a >= b THEN a ELSE b

\* C18: in every armed control cycle actuator_desired.throttle is
\* max(RC throttle level, armed_min_throttle): the cycle writes that value
\* when it starts and the stages leave it alone.
C18_ThrottleFloor ==
    [][/\ (BeginStep /\ controllers_armed)
           => control_reference'.actuator_desired.throttle =
                  Max(rc.throttle, arm_settings.armed_min_throttle)
       /\ CascadeStep
           => control_reference'.actuator_desired.throttle =
                  control_reference.actuator_desired.throttle]_vars

\* an armed cycle has started with the throttle stick below the floor
C18_Witness ==
    /\ ctl_pc = "cascade"
    /\ control_reference.mode = "FLIGHTMODE_ATTITUDE"
    /\ rc.throttle < arm_settings.armed_min_throttle
    /\ arm_settings.armed_min_throttle > 0
    /\ control_reference.actuator_desired.throttle =
           arm_settings.armed_min_throttle
\* C19: every armed control cycle, whatever mode it finds in the control
\* reference, sets rate_reference.z to max_rate.yaw (degrees/s, taken to
\* rad/s) times the yaw stick level, and the stages of the cascade, the
\* attitude stage among them, leave rate_reference.z unchanged.
C19_YawRateReference ==
    [][/\ (BeginStep /\ controllers_armed)
           => control_reference'.rate_reference.z =
                  Mul(Deg2Rad(control_limits.max_rate.yaw), rc.yaw)
       /\ CascadeStep
           => control_reference'.rate_reference.z =
                  control_reference.rate_reference.z]_vars

\* the attitude stage has run with a yaw rate reference other than 0
C19_Witness ==
    /\ AttitudeStageDone
    /\ control_data.attitude_controller[0].last_output # 0
    /\ rc.yaw # 0
    /\ control_reference.rate_reference.z # 0
    /\ control_reference.rate_reference.z =
           Mul(Deg2Rad(control_limits.max_rate.yaw), rc.yaw)
\* C20: the control task runs exactly one control cycle per 'new estimate'
\* signal, also when the estimator signals while a cycle is running or while
\* the arming task runs: a signal is never raised on top of one that no
\* cycle has taken up yet (the two would be answered by a single cycle).
C20_OneCyclePerSignal ==
    [][last_op' = "signal" => ~est_pending]_vars
\* ------------------------------------------------------------------------
\* Properties of the parameter store and the startup
\* ------------------------------------------------------------------------
SaveOrder == <<"CONA", "CONP", "CONL", "CONM">>

\* the writes of a wake-up so far are the first of the four, in order, and
\* the thread blocks only with none or all four of them done
SaveLogInOrder ==
    /\ Len(save_log) <= 4
    /\ save_log = SubSeq(SaveOrder, 1, Len(save_log))
    /\ save_pc = "wait" => Len(save_log) \in {0, 4}
    /\ save_pc # "wait" => Len(save_log) < 4

\* C21: each wake-up of the save thread on a save signal performs exactly
\* four store writes, in the order CONA (arm settings), CONP (the gains, from
\* the snapshot GetControlParameters takes after the CONA write), CONL
\* (limits), CONM (mixer weights), and then blocks again; no write is issued
\* without a save signal.
C21_SaveWritesFourInOrder ==
    /\ []SaveLogInOrder
    /\ [][/\ (save_pc = "wait" /\ save_pc' # "wait") => save_pending
          /\ store' # store
                => /\ save_pc # "wait"
                   /\ \E k \in ParameterKeys :
                         /\ save_log' = Append(save_log, k)
                         /\ store' = [store EXCEPT ![k] =
                               <<CASE k = "CONA" -> arm_settings
                                   [] k = "CONP" -> flash_save_control_parameters
                                   [] k = "CONL" -> control_limits
                                   [] k = "CONM" -> output_mixer>>]
          /\ flash_save_control_parameters' # flash_save_control_parameters
                => /\ save_log = <<"CONA">>
                   /\ flash_save_control_parameters' =
                          GetControlParameters(control_data)
          /\ (save_pc # "CONP" /\ save_pc' = "CONP")
                => /\ save_log = <<"CONA">>
                   /\ flash_save_control_parameters' =
                          GetControlParameters(control_data)
         ]_vars

\* a wake-up has written all four blocks, the gains as the snapshot held
\* them, while a configuration command has changed the gains since
C21_Witness ==
    /\ save_pc = "wait"
    /\ save_log = SaveOrder
    /\ store["CONP"] = <<flash_save_control_parameters>>
    /\ flash_save_control_parameters # GetControlParameters(control_data)
    /\ flash_save_control_parameters = TunedParameters
    /\ store["CONA"] = <<arm_settings>>
\* the block a key holds after the startup reads: the stored record when its
\* read reported success, the value ControlInit gave the block otherwise
AsRead(key, stored, default) ==
    IF read_status[key] = "FLASHSAVE_OK" THEN stored ELSE default

C23_SetParametersResetsIntegrals ==
    [][GetControlParameters(control_data') # GetControlParameters(control_data)
        => \A i \in Axes :
              /\ control_data'.attitude_controller[i].integral = 0
              /\ control_data'.rate_controller[i].integral = 0]_vars

\* C24: a page write is accepted for every count up to the page capacity of
\* 256 bytes; for a larger count the system halts before the flash is
\* claimed and before any byte is sent, and nothing runs afterwards (the
\* request is not retried).
C24_PageWriteSizeCheck ==
    /\ [][(page_write.pc = "idle" /\ page_write'.pc # "idle")
            => (page_write'.pc = "halted" <=> page_write'.count > PageSize)]_vars
    /\ [](page_write.pc = "halted"
            => (flash_mutex = "none" /\ page_write.sent = 0))
    /\ [][page_write.pc # "halted"]_vars

\* C25: initialization failures are fatal.  A flash whose ID differs from
\* the configured one halts the system in ExternalFlashInit; a failing
\* RCOutputInit halts ControlInit before any parameter block is read and
\* before any of the three threads is created.  Nothing runs after a halt.
C25_InitFailureIsFatal ==
    /\ []((init_pc # "reset" /\ flash_device.id # flash_device.jedec_id)
            => init_pc = "halted_flash")
    /\ []((init_pc \notin {"reset", "control_init", "halted_flash"}
              /\ rcoutput_status # "MSG_OK")
            => init_pc = "halted_rcoutput")
    /\ [](init_pc \in Halted
            => /\ threads = {}
               /\ \A k \in ParameterKeys : read_status[k] = "none"
               /\ arm_settings \in {ZeroArmSettings, DefaultArmSettings}
               /\ GetControlParameters(control_data) = ZeroParameters
               /\ control_limits = ZeroLimits
               /\ output_mixer = ZeroMixer
               /\ ~controllers_armed)
    /\ [][init_pc \notin Halted]_vars

\* ControlInit has halted on the failure of RCOutputInit, with a flash that
\* answered the configured ID and holds records that were never read
C25_Witness ==
    /\ init_pc = "halted_rcoutput"
    /\ rcoutput_status = "MSG_RESET"
    /\ flash_device.id = flash_device.jedec_id
    /\ store = StoredRecords
    /\ arm_settings = DefaultArmSettings
    /\ threads = {}

\* C26: once the armed flag is false every call to the output driver passes
\* 0: a send step taken while the flag is cleared hands only zeros to the
\* driver, also when the cycle sampled the flag before it was cleared.
C26_NoCommandAfterDisarm ==
    [][(SendStep /\ ~controllers_armed)
        => \A i \in Channels : rc_output'[i] = 0]_vars

\* C27: after a forced disarm of the armed system the gate does not re-arm on
\* the following tick: with an arming time of a second or more, one tick in
\* ArmRegion is no full hold counted from zero, so the tick that follows the
\* forced disarm leaves the system Disarmed.
C27_NoRearmAfterForcedDisarm ==
    [][(last_op = "force_disarm" /\ prev_armed /\ last_op' = "tick"
           /\ arm_settings.arm_stick_time >= 1)
        => ~controllers_armed']_vars

\* the configured stick axis is at or beyond 1 - 2 * stick_threshold in the
\* arming direction
ArmAxisBeyond ==
    LET dir == arm_settings.stick_direction
        threshold == Scale - 2 * arm_settings.stick_threshold
    IN  \/ dir = "STICK_PITCH_MIN" /\ rc.pitch <= -threshold
        \/ dir = "STICK_PITCH_MAX" /\ rc.pitch >= threshold
        \/ dir = "STICK_ROLL_MIN" /\ rc.roll <= -threshold
        \/ dir = "STICK_ROLL_MAX" /\ rc.roll >= threshold
        \/ dir = "STICK_YAW_MIN" /\ rc.yaw <= -threshold
        \/ dir = "STICK_YAW_MAX" /\ rc.yaw >= threshold

\* C28: the armed flag is false after ControlInit and becomes true only in a
\* tick of the arming thread, and only when that tick finds the RC link
\* active, a stick direction other than STICK_NONE, the emergency-stop
\* channel at 0.5 or more, throttle at most stick_threshold and the
\* configured axis beyond 1 - 2 * stick_threshold in the arming direction;
\* with stick_direction STICK_NONE no step arms.
C28_ArmedOnlyByGesture ==
    /\ ~controllers_armed
    /\ [][(~controllers_armed /\ controllers_armed')
            => /\ last_op' = "tick"
               /\ rc.active
               /\ arm_settings.stick_direction # "STICK_NONE"
               /\ rc.aux1 >= Half
               /\ rc.throttle <= arm_settings.stick_threshold
               /\ ArmAxisBeyond]_vars
    /\ [][(~controllers_armed /\ arm_settings.stick_direction = "STICK_NONE")
            => ~controllers_armed']_vars

\* a tick has armed the system on the pitch-minimum gesture after a hold
\* that started Disarmed with all timers zero
C28_Witness ==
    /\ AfterTick
    /\ ~prev_armed
    /\ controllers_armed
    /\ run_clean
    /\ arm_settings.stick_direction = "STICK_PITCH_MIN"
    /\ arm_settings.arm_stick_time = MaxStickTime
    /\ rc.pitch = -Scale
    /\ rc.yaw = Scale

\* C29: with the RC link active, a direction configured, the emergency-stop
\* channel at 0.5 or more and throttle above stick_threshold, a tick leaves
\* the armed flag as it was whatever the stick positions are, and when
\* arm_zero_throttle_timeout is non-zero it leaves all three timers at 0.
C29_ThrottleUpTickKeepsFlag ==
    [][(last_op' = "tick" /\ rc.active
           /\ arm_settings.stick_direction # "STICK_NONE"
           /\ rc.aux1 >= Half
           /\ rc.throttle > arm_settings.stick_threshold)
        => /\ controllers_armed' = controllers_armed
           /\ (arm_settings.arm_zero_throttle_timeout # 0
                 => (arm_time' = 0 /\ disarm_time' = 0 /\ timeout_time' = 0))]_vars

\* a tick has left the system Armed with throttle up and the stick held in
\* the disarm position of the pitch-minimum gesture
C29_Witness ==
    /\ AfterTick
    /\ prev_armed
    /\ controllers_armed
    /\ rc.active
    /\ rc.aux1 >= Half
    /\ rc.throttle > arm_settings.stick_threshold
    /\ arm_settings.stick_direction = "STICK_PITCH_MIN"
    /\ rc.pitch = Scale
    /\ arm_settings.arm_zero_throttle_timeout # 0
    /\ TimersZero

\* C30: in every reachable state at most one of arm_time, disarm_time and
\* timeout_time is non-zero.
C30_AtMostOneTimerRuns ==
    /\ (arm_time # 0 => (disarm_time = 0 /\ timeout_time = 0))
    /\ (disarm_time # 0 => timeout_time = 0)

\* the armed system counts the arm time again from its first tick, after
\* another branch had reset it
C30_Witness ==
    /\ AfterTick
    /\ controllers_armed
    /\ arm_run = 1
    /\ arm_time = 1
    /\ disarm_time = 0
    /\ timeout_time = 0
    /\ arm_settings.arm_zero_throttle_timeout # 0

\* C31: with the arm settings held fixed the 16-bit timers never wrap:
\* arm_time and disarm_time stay at or below (arm_stick_time + 1) * ARM_RATE
\* and timeout_time at or below (arm_zero_throttle_timeout + 1) * ARM_RATE,
\* both below 2^16, however long the sticks are held.
C31_TimersNeverWrap ==
    /\ arm_time <= (arm_settings.arm_stick_time + 1) * ArmRate
    /\ disarm_time <= (arm_settings.arm_stick_time + 1) * ArmRate
    /\ timeout_time <= (arm_settings.arm_zero_throttle_timeout + 1) * ArmRate
    /\ (arm_settings.arm_stick_time + 1) * ArmRate < TimerMod
    /\ (arm_settings.arm_zero_throttle_timeout + 1) * ArmRate < TimerMod

\* the sticks have been held in ArmRegion for longer than the arm time
\* counts: the system is armed and arm_time rests at its largest value
C31_Witness ==
    /\ AfterTick
    /\ controllers_armed
    /\ arm_settings.arm_stick_time = MaxStickTime
    /\ arm_time = (arm_settings.arm_stick_time + 1) * ArmRate
    /\ arm_run = RunCap(arm_settings)

\* ------------------------------------------------------------------------
\* Properties of the flash driver
\* ------------------------------------------------------------------------
\* client c is between ExternalFlash_Claim and ExternalFlash_Release: it has
\* made the Claim step of its operation and not yet the last step
InFlash(c) ==
    /\ Running(c)
    /\ \E j \in 1..(flash_ops[c].i - 1) : Program(flash_ops[c].op)[j] = "Claim"

\* client c makes a step of its operation
Stepped(c) == Running(c) /\ flash_ops'[c] # flash_ops[c]

\* the steps that use the device, the bus or the scratch buffer
BusSteps == {"AcquireBus", "WriteEnable", "Command", "ReadStatus", "LoadTmp"}

\* C32: flash operations are mutually exclusive: at most one thread is
\* between ExternalFlash_Claim and ExternalFlash_Release, and every step that
\* acquires the bus, exchanges bytes with the device or writes flash_tmp is
\* made by that thread while no other thread is inside an operation.
C32_FlashMutualExclusion ==
    /\ [](\A c, d \in FlashClients : (InFlash(c) /\ InFlash(d)) => c = d)
    /\ [][\A c \in FlashClients :
             (Stepped(c) /\ Current(c) \in BusSteps)
                => /\ InFlash(c)
                   /\ flash_mutex = c
                   /\ \A d \in FlashClients \ {c} : ~InFlash(d)]_vars

\* a DMA page write has loaded flash_tmp and is about to send its command
\* while another thread waits in ExternalFlash_Claim of a DMA read
C32_Witness ==
    /\ flash_ops["client1"].op = "ExternalFlash_WritePage"
    /\ Current("client1") = "Command"
    /\ flash_tmp = "client1"
    /\ flash_mutex = "client1"
    /\ flash_ops["client2"].op = "ExternalFlash_ReadBuffer"
    /\ Current("client2") = "Claim"

\* the steps that send bytes to the device
DeviceSteps == {"WriteEnable", "Command", "ReadStatus"}

\* C33: every erase and page write sends Write-Enable before its erase or
\* program command, so the device takes the command; it releases the flash
\* only after a status read, made at least once, has shown the
\* write-in-progress flag clear; and while a write or erase is in progress
\* the thread that started it holds the flash and no other thread's bytes
\* reach the device.
C33_WriteEnableAndPolling ==
    /\ [](flash_chip.wip => flash_mutex = flash_chip.writer)
    /\ [][\A c \in FlashClients :
             /\ (Stepped(c) /\ Current(c) = "Command"
                    /\ flash_ops[c].op \in FlashWriteOps)
                   => /\ \E j \in 1..(flash_ops[c].i - 1) :
                            Program(flash_ops[c].op)[j] = "WriteEnable"
                      /\ flash_chip.wel
                      /\ flash_chip'.wip
                      /\ flash_chip'.writer = c
             /\ (Stepped(c) /\ Current(c) = "Release"
                    /\ flash_ops[c].op \in FlashWriteOps)
                   => /\ flash_ops[c].polls >= 1
                      /\ ~flash_ops[c].wip
                      /\ ~flash_chip.wip
             /\ (Stepped(c) /\ Current(c) \in DeviceSteps /\ flash_chip.wip)
                   => c = flash_chip.writer]_vars

\* a sector erase is in progress: its thread has read the status twice, saw
\* the flag set and goes round the loop, while another thread waits in
\* ExternalFlash_Claim for its page write
C33_Witness ==
    /\ flash_ops["client1"].op = "ExternalFlash_EraseSector"
    /\ Current("client1") = "WhileWip"
    /\ flash_ops["client1"].polls = 2
    /\ flash_ops["client1"].wip
    /\ flash_chip.wip
    /\ flash_chip.writer = "client1"
    /\ flash_ops["client2"].op = "ExternalFlash_WritePagePolling"
    /\ Current("client2") = "Claim"

\* client c is not waiting for a lock another thread holds
CanStep(c) ==
    CASE Current(c) = "Claim" -> flash_mutex = "none"
      [] Current(c) = "AcquireBus" -> spi_bus = "none"
      [] OTHER -> TRUE

\* C34: flash operations cannot deadlock and leave no lock held.  The SPI
\* bus is acquired only by the thread that holds the flash claim, and the
\* claim is released only with the bus released; the bus is not held in the
\* sleep of ExternalFlash_WaitForWriteEnd; a thread outside the driver holds
\* neither lock; and whenever threads are inside operations one of them can
\* make its next step.
C34_NoDeadlockNoLockLeft ==
    /\ [](\A c \in FlashClients :
             /\ spi_bus = c => flash_mutex = c
             /\ Current(c) \in {"Sleep", "Claim", "Release"} => spi_bus # c
             /\ ~Running(c) => (flash_mutex # c /\ spi_bus # c))
    /\ []((NoHalt /\ \E c \in FlashClients : Running(c))
            => \E c \in FlashClients : Running(c) /\ CanStep(c))
    /\ [][\A c \in FlashClients :
             /\ (Stepped(c) /\ Current(c) = "AcquireBus")
                   => (flash_mutex = c /\ spi_bus = "none")
             /\ (Stepped(c) /\ flash_ops'[c].st = "idle")
                   => (flash_mutex' # c /\ spi_bus' # c)]_vars

\* a page erase sleeps between two status reads with the bus free for the
\* others, while a second thread waits in ExternalFlash_Claim to read the ID
C34_Witness ==
    /\ flash_ops["client2"].op = "ExternalFlash_ErasePage"
    /\ Current("client2") = "Sleep"
    /\ flash_ops["client2"].polls = 1
    /\ flash_mutex = "client2"
    /\ spi_bus = "none"
    /\ flash_ops["client1"].op = "ExternalFlash_ReadID"
    /\ Current("client1") = "Claim"

TypeOK ==
    /\ controllers_armed \in BOOLEAN
    /\ arm_time \in 0..(TimerMod - 1)
    /\ disarm_time \in 0..(TimerMod - 1)
    /\ timeout_time \in 0..(TimerMod - 1)
    /\ arm_settings \in ArmSettingsSet \cup ArmSettingsHost \cup {ZeroArmSettings}
    /\ rc \in RCLevels \cup RCLevelsControl
    /\ ctl_pc \in {"wait", "cascade", "send"}
    /\ est_pending \in BOOLEAN
    /\ init_pc \in {"reset", "control_init", "read_CONA", "read_CONP",
                    "read_CONL", "read_CONM", "create_threads", "running"}
                       \cup Halted
    /\ threads \subseteq AllThreads
    /\ save_pc \in ParameterKeys \cup {"wait", "snapshot"}
    /\ save_pending \in BOOLEAN
    /\ flash_device \in FlashDevices
    /\ rcoutput_status \in {"MSG_OK", "MSG_RESET"}
    /\ page_write \in [pc : {"idle", "halted", "claim", "write_enable",
                              "program", "wait_end", "release"},
                        fn : PageWriteFns \cup {"none"},
                        count : WriteCounts, sent : WriteCounts]
    /\ flash_mutex \in PageWriteFns \cup FlashClients \cup {"none"}
    /\ flash_ops \in [FlashClients ->
                         [st : {"idle", "running", "halted"},
                          op : FlashOpNames \cup {"none"},
                          i : 0..20, count : WriteCounts, wip : BOOLEAN,
                          polls : 0..2]]
    /\ spi_bus \in FlashClients \cup {"none"}
    /\ flash_chip \in [wel : BOOLEAN, wip : BOOLEAN,
                        writer : FlashClients \cup {"none"}]
    /\ flash_tmp \in FlashClients \cup {"none"}
====
